---- MODULE Spec2Model ----
(***************************************************************************)
(* Kanban board: the Express Board Store (server.js, quoted in README.md)  *)
(* and the zustand Client Cache (kanban-frontend/src/store.ts).            *)
(*                                                                         *)
(* Strings are TLA+ strings; a JSON field that is absent (undefined) is    *)
(* the value Undefined.  A history entry is {id, action, timestamp}; id    *)
(* (a uuid) and timestamp are opaque values no code reads, so an entry is  *)
(* modelled by its action, a tuple of the template's pieces.               *)
(***************************************************************************)
EXTENDS Integers, Sequences, FiniteSets, TLC

VARIABLES
    doc,        \* server: the persisted Board Document (data/tasks.json)
    uuidCount,  \* server: number of task ids drawn from uuidv4()
    nOps,       \* number of requests handled by the server so far
    res,        \* server: the response to the last request handled
    logged,     \* server: what the last request handled passed to console.error
    boardData,  \* client: the cached Board Document, or Null
    isLoading,  \* client: TaskStore.isLoading
    error,      \* client: TaskStore.error, a message or NoError
    filter,     \* client: TaskStore.filter
    net,        \* the requests on their way to the server and the responses on their way back
    nCalls,     \* client: number of store operations invoked so far
    heap,       \* client: the objects behind boardData, by address (Move only)
    boardRef    \* client: the address of the object boardData refers to (Move only)

serverVars == <<doc, uuidCount, nOps, res, logged>>
clientVars == <<boardData, isLoading, error, filter, nCalls>>
heapVars == <<heap, boardRef>>
vars == <<doc, uuidCount, nOps, res, logged, boardData, isLoading, error, filter, net, nCalls,
          heap, boardRef>>

-----------------------------------------------------------------------------
(* Bounds                                                                  *)

MaxOps == 2        \* requests the server handles in one behaviour
MaxUuid == 1       \* task ids drawn from uuidv4() in one behaviour
MaxIdx == 2        \* largest sourceIndex / destIndex a request carries
MaxCalls == 2      \* store operations the user invokes in one behaviour
MaxTasks == 3      \* tasks on a board a move is applied to

-----------------------------------------------------------------------------
(* Values                                                                  *)

Undefined == "<undefined>"
Null == [null |-> TRUE]
NoError == <<>>

HISTORY_LIMIT == 5

ColumnIds == {"todo", "inprogress", "done"}
SeedTaskId == "task-1"
UuidNames == <<"uuid-1", "uuid-2", "uuid-3", "uuid-4">>
Uuid(n) == UuidNames[n]
NoSuchColumn == "nowhere"

\* a path parameter that is no task id but a property every object inherits
\* from Object.prototype; its value there is a function
PrototypeKey == "constructor"

Indices == 0 .. MaxIdx
TaskIdInputs == {SeedTaskId} \cup { Uuid(n) : n \in 1 .. MaxUuid }
ColumnIdInputs == ColumnIds \cup {NoSuchColumn}
IoOutcomes == {"ok", "readFails", "writeFails"}
TitleInputs == {Undefined, "", " ", "a"}
DescriptionInputs == {Undefined, "", "d"}

\* JavaScript truthiness of a string-or-undefined value
Truthy(v) == v # Undefined /\ v # ""

\* data.tasks[id] is truthy: tasks is a plain object read from JSON, so the
\* lookup finds its own keys (task records) and the inherited ones
Found(tasks, id) == id \in DOMAIN tasks \/ id = PrototypeKey

\* data.tasks[id].title; the inherited function has no title
TitleOf(tasks, id) == IF id \in DOMAIN tasks THEN tasks[id].title ELSE Undefined

Range(seq) == { seq[i] : i \in 1 .. Len(seq) }

Min(a, b) == IF a < b THEN a ELSE b
Max(a, b) == IF a > b THEN a ELSE b

\* Array.prototype.splice's normalisation of its start argument
SpliceStart(arr, start) ==
    IF start < 0 THEN Max(Len(arr) + start, 0) ELSE Min(start, Len(arr))

\* arr.splice(start, 1): the array afterwards
SpliceRemove(arr, start) ==
    LET k == SpliceStart(arr, start)
    IN  SubSeq(arr, 1, k) \o SubSeq(arr, k + 2, Len(arr))

\* arr.splice(start, 0, item): the array afterwards
SpliceInsert(arr, start, item) ==
    LET k == SpliceStart(arr, start)
    IN  SubSeq(arr, 1, k) \o <<item>> \o SubSeq(arr, k + 1, Len(arr))

\* arr.filter(x => x !== id)
FilterOut(arr, id) == SelectSeq(arr, LAMBDA x : x # id)

-----------------------------------------------------------------------------
(* Board Store (server.js)                                                 *)

initialData ==
    [ tasks |-> [ i \in {SeedTaskId} |->
                    [ id |-> SeedTaskId,
                      title |-> "Welcome to your Kanban Board!",
                      description |-> "Drag me to different columns or edit me by clicking!" ] ],
      columns |-> [ c \in ColumnIds |->
                    [ id |-> c,
                      title |-> CASE c = "todo" -> "To Do"
                                  [] c = "inprogress" -> "In Progress"
                                  [] c = "done" -> "Done",
                      taskIds |-> IF c = "todo" THEN <<SeedTaskId>> ELSE <<>> ] ],
      columnOrder |-> <<"todo", "inprogress", "done">>,
      history |-> <<>> ]

\* addToHistory(data, action): unshift, then keep the first 5
addToHistoryWrong(data, action) ==
    [data EXCEPT !.history = SubSeq(data.history \o <<action>>, 1,
                                    Min(Len(data.history) + 1, HISTORY_LIMIT))]

addToHistory(data, action) ==
    [data EXCEPT !.history = SubSeq(<<action>> \o data.history, 1,
                                    Min(Len(data.history) + 1, HISTORY_LIMIT))]

CreatedAction(title) == <<"Created task: \"", title, "\"">>
UpdatedAction(oldTitle, newTitle) ==
    <<"Updated task: \"", oldTitle, "\" -> \"", newTitle, "\"">>
DeletedAction(title) == <<"Deleted task: \"", title, "\"">>
MovedAction(title, from, to) == <<"Moved \"", title, "\" from ", from, " to ", to>>

Response(status, err) == [status |-> status, error |-> err]

\* a statement of a route throws: the async handler's promise rejects and
\* no response is sent
Thrown == Response(0, "TypeError")

\* the document POST /api/tasks builds before writing it
createTaskData(data, taskId, title, description) ==
    LET newTask == [ id |-> taskId, title |-> title,
                     description |-> IF Truthy(description) THEN description ELSE "" ]
        withTask == [data EXCEPT
                        !.tasks = [ i \in DOMAIN data.tasks \cup {taskId} |->
                                      IF i = taskId THEN newTask ELSE data.tasks[i] ],
                        !.columns["todo"].taskIds = Append(@, taskId)]
    IN  addToHistory(withTask, CreatedAction(title))

\* a variant that treats an empty description like an omitted one
updateTaskDataKeepsDescription(data, id, title, description) ==
    LET oldTitle == data.tasks[id].title
        newTitle == IF Truthy(title) THEN title ELSE oldTitle
        newDesc == IF Truthy(description) THEN description
                   ELSE data.tasks[id].description
        updated == [data EXCEPT !.tasks[id].title = newTitle,
                                !.tasks[id].description = newDesc]
    IN  addToHistory(updated, UpdatedAction(oldTitle, newTitle))

\* the document PUT /api/tasks/:id builds before writing it
updateTaskData(data, id, title, description) ==
    LET oldTitle == data.tasks[id].title
        newTitle == IF Truthy(title) THEN title ELSE oldTitle
        newDesc == IF description # Undefined THEN description
                   ELSE data.tasks[id].description
        updated == [data EXCEPT !.tasks[id].title = newTitle,
                                !.tasks[id].description = newDesc]
    IN  addToHistory(updated, UpdatedAction(oldTitle, newTitle))

\* the document DELETE /api/tasks/:id builds before writing it
deleteTaskData(data, id) ==
    LET taskTitle == TitleOf(data.tasks, id)
        removed == [data EXCEPT
                      !.columns = [ c \in DOMAIN data.columns |->
                                      [data.columns[c] EXCEPT
                                          !.taskIds = FilterOut(@, id)] ],
                      !.tasks = [ i \in DOMAIN data.tasks \ {id} |-> data.tasks[i] ]]
    IN  addToHistory(removed, DeletedAction(taskTitle))

\* a variant that inserts into the destination before it removes from the
\* source
moveSplicesInsertsFirst(columns, id, sourceColumnId, destColumnId, sourceIndex, destIndex) ==
    LET afterInsert == [columns EXCEPT
                          ![destColumnId].taskIds = SpliceInsert(@, destIndex, id)]
    IN  [afterInsert EXCEPT
            ![sourceColumnId].taskIds = SpliceRemove(@, sourceIndex)]

\* the two splices of POST /api/tasks/:id/move; destColumn is the same
\* object as sourceColumn when the ids are equal
moveSplices(columns, id, sourceColumnId, destColumnId, sourceIndex, destIndex) ==
    LET afterRemove == [columns EXCEPT
                          ![sourceColumnId].taskIds = SpliceRemove(@, sourceIndex)]
    IN  [afterRemove EXCEPT
            ![destColumnId].taskIds = SpliceInsert(@, destIndex, id)]

\* the document POST /api/tasks/:id/move builds before writing it
moveTaskDataAlwaysLogs(data, id, sourceColumnId, destColumnId, sourceIndex, destIndex) ==
    LET moved == [data EXCEPT !.columns =
                    moveSplices(data.columns, id, sourceColumnId, destColumnId,
                                sourceIndex, destIndex)]
    IN  addToHistory(moved, MovedAction(TitleOf(data.tasks, id),
                                        data.columns[sourceColumnId].title,
                                        data.columns[destColumnId].title))

moveTaskData(data, id, sourceColumnId, destColumnId, sourceIndex, destIndex) ==
    LET moved == [data EXCEPT !.columns =
                    moveSplices(data.columns, id, sourceColumnId, destColumnId,
                                sourceIndex, destIndex)]
        taskTitle == TitleOf(data.tasks, id)
    IN  IF sourceColumnId # destColumnId
        THEN addToHistory(moved, MovedAction(taskTitle,
                                             data.columns[sourceColumnId].title,
                                             data.columns[destColumnId].title))
        ELSE moved

Handled(data, count, response) == [data |-> data, count |-> count, res |-> response]

\* app.get('/api/board')
getBoardRoute(data, count, io) ==
    IF io = "readFails"
    THEN Handled(data, count, Response(500, "Failed to read board data"))
    ELSE Handled(data, count, Response(200, ""))

\* app.post('/api/tasks')
postTaskRoute(data, count, title, description, io) ==
    IF ~Truthy(title)
    THEN Handled(data, count, Response(400, "Task title is required"))
    ELSE IF io = "readFails"
    THEN Handled(data, count, Response(500, "Failed to read board data"))
    ELSE IF "todo" \notin DOMAIN data.columns
    THEN Handled(data, count + 1, Thrown)
    ELSE IF io = "writeFails"
    THEN Handled(data, count + 1, Response(500, "Failed to save task"))
    ELSE Handled(createTaskData(data, Uuid(count + 1), title, description),
                 count + 1, Response(201, ""))

\* a variant that keeps the updated document although the write failed
putTaskRouteKeepsUnwritten(data, count, id, title, description, io) ==
    IF io = "readFails" \/ ~Found(data.tasks, id)
    THEN Handled(data, count, Response(404, "Task not found"))
    ELSE IF io = "writeFails"
    THEN Handled(updateTaskData(data, id, title, description), count,
                 Response(500, "Failed to update task"))
    ELSE Handled(updateTaskData(data, id, title, description), count, Response(200, ""))

\* app.put('/api/tasks/:id')
putTaskRoute(data, count, id, title, description, io) ==
    IF io = "readFails" \/ ~Found(data.tasks, id)
    THEN Handled(data, count, Response(404, "Task not found"))
    ELSE IF io = "writeFails"
    THEN Handled(data, count, Response(500, "Failed to update task"))
    ELSE Handled(updateTaskData(data, id, title, description), count, Response(200, ""))

\* app.delete('/api/tasks/:id')
deleteTaskRoute(data, count, id, io) ==
    IF io = "readFails" \/ ~Found(data.tasks, id)
    THEN Handled(data, count, Response(404, "Task not found"))
    ELSE IF io = "writeFails"
    THEN Handled(data, count, Response(500, "Failed to delete task"))
    ELSE Handled(deleteTaskData(data, id), count, Response(204, ""))

\* app.post('/api/tasks/:id/move')
postMoveRoute(data, count, id, sourceColumnId, destColumnId, sourceIndex, destIndex, io) ==
    IF io = "readFails" \/ ~Found(data.tasks, id)
    THEN Handled(data, count, Response(404, "Task not found"))
    ELSE IF sourceColumnId \notin DOMAIN data.columns
            \/ destColumnId \notin DOMAIN data.columns
    THEN Handled(data, count, Response(400, "Invalid column"))
    ELSE IF io = "writeFails"
    THEN Handled(data, count, Response(500, "Failed to move task"))
    ELSE Handled(moveTaskData(data, id, sourceColumnId, destColumnId,
                              sourceIndex, destIndex),
                 count, Response(200, ""))

\* what readData and writeData pass to console.error while a request is
\* handled: writeData is reached only by a handler that then answers 500
consoleError(out, io) ==
    IF io = "readFails" THEN "Error reading data:"
    ELSE IF io = "writeFails" /\ out.res.status = 500 THEN "Error writing data:"
    ELSE ""

\* the server state after a request has been handled
Serve(out, io) ==
    /\ nOps' = nOps + 1
    /\ logged' = consoleError(out, io)
    /\ res' = out.res
    /\ doc' = out.data
    /\ uuidCount' = out.count

\* the route a request is dispatched to
route(r, data, count, io) ==
    CASE r.kind = "getBoard" -> getBoardRoute(data, count, io)
      [] r.kind = "create" -> postTaskRoute(data, count, r.title, r.description, io)
      [] r.kind = "update" -> putTaskRoute(data, count, r.id, r.title, r.description, io)
      [] r.kind = "delete" -> deleteTaskRoute(data, count, r.id, io)
      [] r.kind = "move" -> postMoveRoute(data, count, r.id, r.sourceColumnId,
                                     r.destColumnId, r.sourceIndex, r.destIndex, io)

-----------------------------------------------------------------------------
(* SpecStore: the Board Store serving one request after another.  A        *)
(* request carries its JSON body and path parameter.  While it is handled, *)
(* io says whether readData and writeData succeed.  A move that names an   *)
(* unknown column is refused before its indices are read; such requests    *)
(* carry the indices 0, 0.  Deletes and moves are also sent for             *)
(* PrototypeKey.  An update for it would assign title and description to a *)
(* function shared by the whole process, which is not followed here: no    *)
(* update request carries it.                                              *)

CreateRequests ==
    [ kind : {"create"}, title : TitleInputs, description : DescriptionInputs ]
    \cup {[kind |-> "create", title |-> "Buy milk", description |-> Undefined]}

UpdateRequests ==
    [ kind : {"update"}, id : TaskIdInputs, title : TitleInputs,
      description : DescriptionInputs ]

DeleteRequests == [ kind : {"delete"}, id : TaskIdInputs \cup {PrototypeKey} ]

MoveRequests ==
    [ kind : {"move"}, id : TaskIdInputs,
      sourceColumnId : ColumnIds, destColumnId : ColumnIds,
      sourceIndex : Indices, destIndex : Indices ]
    \cup
    { r \in [ kind : {"move"}, id : TaskIdInputs,
              sourceColumnId : ColumnIdInputs, destColumnId : ColumnIdInputs,
              sourceIndex : {0}, destIndex : {0} ] :
        NoSuchColumn \in {r.sourceColumnId, r.destColumnId} }
    \cup
    {[ kind |-> "move", id |-> Uuid(1), sourceColumnId |-> "column-1",
       destColumnId |-> "column-2", sourceIndex |-> 1, destIndex |-> 0 ]}
    \cup
    [ kind : {"move"}, id : {PrototypeKey},
      sourceColumnId : {"todo"}, destColumnId : {"todo", "done"},
      sourceIndex : {0, MaxIdx}, destIndex : {0} ]

Requests ==
    {[kind |-> "getBoard"]} \cup CreateRequests \cup UpdateRequests
        \cup DeleteRequests \cup MoveRequests

\* an HTTP client sends a request
Request(r) ==
    /\ net = {}
    /\ nOps < MaxOps
    /\ r.kind = "create" => uuidCount < MaxUuid
    /\ net' = {r}
    /\ UNCHANGED <<serverVars, clientVars, heapVars>>

GetBoard(io) ==
    \E r \in net :
        /\ r.kind = "getBoard"
        /\ Serve(getBoardRoute(doc, uuidCount, io), io)
        /\ net' = {}
        /\ UNCHANGED <<clientVars, heapVars>>

PostTask(io) ==
    \E r \in net :
        /\ r.kind = "create"
        /\ Serve(postTaskRoute(doc, uuidCount, r.title, r.description, io), io)
        /\ net' = {}
        /\ UNCHANGED <<clientVars, heapVars>>

PutTask(io) ==
    \E r \in net :
        /\ r.kind = "update"
        /\ Serve(putTaskRoute(doc, uuidCount, r.id, r.title, r.description, io), io)
        /\ net' = {}
        /\ UNCHANGED <<clientVars, heapVars>>

DelTask(io) ==
    \E r \in net :
        /\ r.kind = "delete"
        /\ Serve(deleteTaskRoute(doc, uuidCount, r.id, io), io)
        /\ net' = {}
        /\ UNCHANGED <<clientVars, heapVars>>

PostMove(io) ==
    \E r \in net :
        /\ r.kind = "move"
        /\ Serve(postMoveRoute(doc, uuidCount, r.id, r.sourceColumnId, r.destColumnId,
                          r.sourceIndex, r.destIndex, io), io)
        /\ net' = {}
        /\ UNCHANGED <<clientVars, heapVars>>

\* a document left by an earlier run of the server: four title edits of
\* the seed task
editedData ==
    LET e(d) == updateTaskData(d, SeedTaskId, "a", Undefined)
    IN  e(e(e(e(initialData))))

\* a data file in which the columns are ordered otherwise
reorderedData == [initialData EXCEPT !.columnOrder = <<"inprogress", "todo", "done">>]

\* a data file whose columns have other ids
customData ==
    [ tasks |-> [ i \in {"t1"} |-> [id |-> "t1", title |-> "T1", description |-> ""] ],
      columns |-> [ c \in {"column-1", "column-2"} |->
                    [ id |-> c,
                      title |-> IF c = "column-1" THEN "First" ELSE "Second",
                      taskIds |-> IF c = "column-1" THEN <<"t1">> ELSE <<>> ] ],
      columnOrder |-> <<"column-1", "column-2">>,
      history |-> <<>> ]

\* the data file is kept when it exists at start
PersistedDocs == {initialData, editedData, reorderedData, customData}

NoResponse == Response(0, "")

ClientIdle ==
    /\ boardData = Null
    /\ isLoading = FALSE
    /\ error = NoError
    /\ filter = ""
    /\ nCalls = 0

\* object identity is modelled in SpecMove only
NoHeap ==
    /\ heap = <<>>
    /\ boardRef = 0

InitStore ==
    /\ doc \in PersistedDocs
    /\ uuidCount = 0
    /\ nOps = 0
    /\ res = NoResponse
    /\ logged = ""
    /\ net = {}
    /\ ClientIdle
    /\ NoHeap

NextStore ==
    \/ \E r \in Requests : Request(r)
    \/ \E io \in IoOutcomes : GetBoard(io)
    \/ \E io \in IoOutcomes : PostTask(io)
    \/ \E io \in IoOutcomes : PutTask(io)
    \/ \E io \in IoOutcomes : DelTask(io)
    \/ \E io \in IoOutcomes : PostMove(io)

SpecStore == InitStore /\ [][NextStore]_vars

-----------------------------------------------------------------------------
(* SpecRace: the Board Store handling requests that overlap.  A handler    *)
(* awaits readData(), runs synchronously up to writeData(data) and awaits  *)
(* that; other handlers run while it waits.  A handler of net is           *)
(* [n, req, stage, snapshot, count, io, status]: stage is "sent" before    *)
(* readData has resolved, "read" while writeData is awaited and "done"     *)
(* after the response; snapshot is the document readData returned and      *)
(* count the number of ids drawn before the handler drew its own.          *)

RaceRequests ==
    { [kind |-> "getBoard"],
      [kind |-> "create", title |-> "a", description |-> Undefined],
      [kind |-> "create", title |-> "", description |-> Undefined],
      [kind |-> "update", id |-> SeedTaskId, title |-> "a", description |-> Undefined],
      [kind |-> "delete", id |-> SeedTaskId],
      [kind |-> "delete", id |-> Uuid(1)],
      [kind |-> "move", id |-> SeedTaskId, sourceColumnId |-> "todo",
       destColumnId |-> "done", sourceIndex |-> 0, destIndex |-> 0] }

Handler(n, req) ==
    [ n |-> n, req |-> req, stage |-> "sent", snapshot |-> Null, count |-> 0,
      io |-> "ok", status |-> 0 ]

\* a request arrives while others may still be handled
Accept(r) ==
    /\ nOps < MaxOps
    /\ r.kind = "create" =>
          uuidCount + Cardinality({ h \in net : h.req.kind = "create" /\ h.stage = "sent" })
             < MaxUuid
    /\ nOps' = nOps + 1
    /\ net' = net \cup {Handler(nOps + 1, r)}
    /\ UNCHANGED <<doc, uuidCount, res, logged, clientVars, heapVars>>

\* the handler reaches writeData: the request is a mutation that passed its
\* checks
ReachesWrite(out, io) ==
    \/ out.res.status \in {200, 201, 204}
    \/ out.res.status = 500 /\ io = "writeFails"

\* readData() resolves and the handler runs on: into an early response, or up
\* to writeData(data) with the document it has built from what it read
ReadData(io) ==
    \E h \in net :
        /\ h.stage = "sent"
        /\ LET out == route(h.req, doc, uuidCount, io)
           IN  /\ uuidCount' = out.count
               /\ IF h.req.kind # "getBoard" /\ ReachesWrite(out, io)
                  THEN /\ net' = (net \ {h}) \cup
                                   {[h EXCEPT !.stage = "read", !.snapshot = doc,
                                              !.count = uuidCount, !.io = io]}
                       /\ UNCHANGED <<res, logged>>
                  ELSE /\ net' = (net \ {h}) \cup
                                   {[h EXCEPT !.stage = "done", !.status = out.res.status]}
                       /\ res' = out.res
                       /\ logged' = consoleError(out, io)
        /\ UNCHANGED <<doc, nOps, clientVars, heapVars>>

\* a variant in which the handler applies its change to the document as it
\* is when the write happens
WriteDataMerges ==
    \E h \in net :
        /\ h.stage = "read"
        /\ LET out == route(h.req, doc, h.count, h.io)
           IN  /\ doc' = IF out.res.status \in {200, 201, 204} THEN out.data ELSE doc
               /\ res' = out.res
               /\ logged' = consoleError(out, h.io)
               /\ net' = (net \ {h}) \cup
                           {[h EXCEPT !.stage = "done", !.status = out.res.status]}
        /\ UNCHANGED <<uuidCount, nOps, clientVars, heapVars>>

\* writeData(data) resolves: the file holds the handler's document, or is as
\* it was when the write failed; the handler responds
WriteData ==
    \E h \in net :
        /\ h.stage = "read"
        /\ LET out == route(h.req, h.snapshot, h.count, h.io)
           IN  /\ doc' = IF out.res.status = 500 THEN doc ELSE out.data
               /\ res' = out.res
               /\ logged' = consoleError(out, h.io)
               /\ net' = (net \ {h}) \cup
                           {[h EXCEPT !.stage = "done", !.status = out.res.status]}
        /\ UNCHANGED <<uuidCount, nOps, clientVars, heapVars>>

InitRace ==
    /\ doc = initialData
    /\ uuidCount = 0
    /\ nOps = 0
    /\ res = NoResponse
    /\ logged = ""
    /\ net = {}
    /\ ClientIdle
    /\ NoHeap

NextRace ==
    \/ \E r \in RaceRequests : Accept(r)
    \/ \E io \in IoOutcomes : ReadData(io)
    \/ WriteData

SpecRace == InitRace /\ [][NextRace]_vars

-----------------------------------------------------------------------------
(* SpecStart: the server process from its start.  doc is Null while the    *)
(* data file does not exist.  The pending start-up is the message Boot of  *)
(* net: app.listen is called when initializeDataFile has resolved, so no   *)
(* request is accepted before.                                             *)

Boot == [kind |-> "boot"]

\* a variant that writes the seed document at every start
initializeDataFileAlways ==
    /\ Boot \in net
    /\ doc' = initialData
    /\ net' = net \ {Boot}
    /\ UNCHANGED <<uuidCount, nOps, res, logged, clientVars, heapVars>>

\* initializeDataFile, then app.listen
initializeDataFile ==
    /\ Boot \in net
    /\ doc' = IF doc = Null THEN initialData ELSE doc
    /\ net' = net \ {Boot}
    /\ UNCHANGED <<uuidCount, nOps, res, logged, clientVars, heapVars>>

InitStart ==
    /\ doc \in {Null} \cup PersistedDocs
    /\ uuidCount = 0
    /\ nOps = 0
    /\ res = NoResponse
    /\ logged = ""
    /\ net = {Boot}
    /\ ClientIdle
    /\ NoHeap

NextStart ==
    \/ initializeDataFile
    \/ \E r \in RaceRequests : Request(r)
    \/ \E io \in IoOutcomes : GetBoard(io)
    \/ \E io \in IoOutcomes : PostTask(io)
    \/ \E io \in IoOutcomes : PutTask(io)
    \/ \E io \in IoOutcomes : DelTask(io)
    \/ \E io \in IoOutcomes : PostMove(io)

SpecStart == InitStart /\ [][NextStart]_vars

-----------------------------------------------------------------------------
(* Client Cache (store.ts).  A message of net is one fetch(...) call of the *)
(* store: n numbers the store operation that issued it, op names the       *)
(* operation whose continuation awaits it, req is the request, stage says  *)
(* whether the server has answered, outcome is what the awaited promise    *)
(* settles with and body the JSON of a successful GET.  caller names the   *)
(* operation awaiting a fetchBoard it called.                              *)

NoOutcome == [type |-> "none"]
StatusOutcome(status) == [type |-> "status", status |-> status]
ThrownOutcomes == { [type |-> "error", message |-> "Network error"], [type |-> "value"] }

\* response.ok
Ok(outcome) ==
    outcome.type = "status" /\ outcome.status >= 200 /\ outcome.status <= 299

\* a variant that ignores the message of a thrown Error
ErrorMessageAlwaysFallback(outcome, fallback) ==
    CASE outcome.type = "status" -> <<"HTTP error! status: ", ToString(outcome.status)>>
      [] outcome.type = "error" -> <<fallback>>
      [] outcome.type = "value" -> <<fallback>>

\* what the try block throws or lets through, as the catch block's message:
\* error instanceof Error ? error.message : fallback
ErrorMessage(outcome, fallback) ==
    CASE outcome.type = "status" -> <<"HTTP error! status: ", ToString(outcome.status)>>
      [] outcome.type = "error" -> <<outcome.message>>
      [] outcome.type = "value" -> <<fallback>>

User == [op |-> "user"]

\* optimistic is moveTask's newData (Null for the other operations and for a
\* moveTask called without boardData)
Message(n, op, req, caller, optimistic) ==
    [ n |-> n, op |-> op, req |-> req, stage |-> "request",
      outcome |-> NoOutcome, body |-> Null, caller |-> caller,
      optimistic |-> optimistic ]

FetchMessage(n, caller) ==
    Message(n, "fetchBoard", [kind |-> "getBoard"], caller, Null)

\* a variant that counts destIndex before the removal
optimisticColumnsInsertFirst(columns, taskId, sourceColumnId, destColumnId, sourceIndex, destIndex) ==
    LET sourceTaskIds == SpliceRemove(columns[sourceColumnId].taskIds, sourceIndex)
        destTaskIds ==
            IF sourceColumnId = destColumnId
            THEN SpliceRemove(SpliceInsert(columns[sourceColumnId].taskIds,
                                           destIndex, taskId),
                              sourceIndex)
            ELSE SpliceInsert(columns[destColumnId].taskIds, destIndex, taskId)
    IN  [ c \in DOMAIN columns |->
            IF c = destColumnId THEN [columns[c] EXCEPT !.taskIds = destTaskIds]
            ELSE IF c = sourceColumnId THEN [columns[c] EXCEPT !.taskIds = sourceTaskIds]
            ELSE columns[c] ]

\* a variant that appends to the destination list
optimisticColumnsAppends(columns, taskId, sourceColumnId, destColumnId, sourceIndex, destIndex) ==
    LET sourceTaskIds == SpliceRemove(columns[sourceColumnId].taskIds, sourceIndex)
        destTaskIds ==
            Append(IF sourceColumnId = destColumnId
                   THEN sourceTaskIds
                   ELSE columns[destColumnId].taskIds,
                   taskId)
    IN  [ c \in DOMAIN columns |->
            IF c = destColumnId THEN [columns[c] EXCEPT !.taskIds = destTaskIds]
            ELSE IF c = sourceColumnId THEN [columns[c] EXCEPT !.taskIds = sourceTaskIds]
            ELSE columns[c] ]

\* a variant that inserts one place after destIndex
optimisticColumnsInsertAfter(columns, taskId, sourceColumnId, destColumnId, sourceIndex, destIndex) ==
    LET sourceTaskIds == SpliceRemove(columns[sourceColumnId].taskIds, sourceIndex)
        destTaskIds ==
            SpliceInsert(IF sourceColumnId = destColumnId
                         THEN sourceTaskIds
                         ELSE columns[destColumnId].taskIds,
                         destIndex + 1, taskId)
    IN  [ c \in DOMAIN columns |->
            IF c = destColumnId THEN [columns[c] EXCEPT !.taskIds = destTaskIds]
            ELSE IF c = sourceColumnId THEN [columns[c] EXCEPT !.taskIds = sourceTaskIds]
            ELSE columns[c] ]

\* the columns moveTask builds for its optimistic update
optimisticColumns(columns, taskId, sourceColumnId, destColumnId, sourceIndex, destIndex) ==
    LET sourceTaskIds == SpliceRemove(columns[sourceColumnId].taskIds, sourceIndex)
        destTaskIds ==
            SpliceInsert(IF sourceColumnId = destColumnId
                         THEN sourceTaskIds
                         ELSE columns[destColumnId].taskIds,
                         destIndex, taskId)
    IN  [ c \in DOMAIN columns |->
            IF c = destColumnId THEN [columns[c] EXCEPT !.taskIds = destTaskIds]
            ELSE IF c = sourceColumnId THEN [columns[c] EXCEPT !.taskIds = sourceTaskIds]
            ELSE columns[c] ]

\* a variant that also logs the move in the client's history
optimisticDataLogsMove(currentData, taskId, sourceColumnId, destColumnId, sourceIndex, destIndex) ==
    [currentData EXCEPT
        !.columns = optimisticColumns(currentData.columns, taskId, sourceColumnId,
                                      destColumnId, sourceIndex, destIndex),
        !.history = IF sourceColumnId # destColumnId
                    THEN <<MovedAction(TitleOf(currentData.tasks, taskId),
                                       currentData.columns[sourceColumnId].title,
                                       currentData.columns[destColumnId].title)>> \o @
                    ELSE @]

\* a variant that also lists the destination column first
optimisticDataReorders(currentData, taskId, sourceColumnId, destColumnId, sourceIndex, destIndex) ==
    [currentData EXCEPT
        !.columns = optimisticColumns(currentData.columns, taskId, sourceColumnId,
                                      destColumnId, sourceIndex, destIndex),
        !.columnOrder = <<destColumnId>> \o SelectSeq(@, LAMBDA c : c # destColumnId)]

\* newData of moveTask
optimisticData(currentData, taskId, sourceColumnId, destColumnId, sourceIndex, destIndex) ==
    [currentData EXCEPT !.columns =
        optimisticColumns(currentData.columns, taskId, sourceColumnId, destColumnId,
                          sourceIndex, destIndex)]

\* a variant that leaves the previous error in place
fetchBoardKeepsError ==
    /\ nCalls < MaxCalls
    /\ nCalls' = nCalls + 1
    /\ isLoading' = TRUE
    /\ net' = net \cup {FetchMessage(nCalls + 1, User)}
    /\ UNCHANGED <<boardData, error, filter, serverVars, heapVars>>

\* fetchBoard, up to its await: called by the user
fetchBoard ==
    /\ nCalls < MaxCalls
    /\ nCalls' = nCalls + 1
    /\ isLoading' = TRUE
    /\ error' = NoError
    /\ net' = net \cup {FetchMessage(nCalls + 1, User)}
    /\ UNCHANGED <<boardData, filter, serverVars, heapVars>>

\* a variant that does not store the response
fetchBoardSettledKeepsBoard ==
    \E m \in net :
        /\ m.op = "fetchBoard"
        /\ m.stage = "response"
        /\ net' = net \ {m}
        /\ isLoading' = FALSE
        /\ IF Ok(m.outcome)
           THEN UNCHANGED <<boardData, error>>
           ELSE /\ error' = ErrorMessage(m.outcome, "Failed to fetch board data")
                /\ UNCHANGED boardData
        /\ UNCHANGED <<filter, nCalls, serverVars, heapVars>>

\* a variant that empties the cache when the fetch fails
fetchBoardSettledClearsBoard ==
    \E m \in net :
        /\ m.op = "fetchBoard"
        /\ m.stage = "response"
        /\ net' = net \ {m}
        /\ isLoading' = FALSE
        /\ IF Ok(m.outcome)
           THEN boardData' = m.body /\ UNCHANGED error
           ELSE /\ error' = ErrorMessage(m.outcome, "Failed to fetch board data")
                /\ boardData' = Null
        /\ UNCHANGED <<filter, nCalls, serverVars, heapVars>>

\* a variant that leaves isLoading set when the fetch fails
fetchBoardSettledStaysLoading ==
    \E m \in net :
        /\ m.op = "fetchBoard"
        /\ m.stage = "response"
        /\ net' = net \ {m}
        /\ IF Ok(m.outcome)
           THEN boardData' = m.body /\ isLoading' = FALSE /\ UNCHANGED error
           ELSE /\ error' = ErrorMessage(m.outcome, "Failed to fetch board data")
                /\ UNCHANGED <<boardData, isLoading>>
        /\ UNCHANGED <<filter, nCalls, serverVars, heapVars>>

\* fetchBoard, after its await
fetchBoardSettled ==
    \E m \in net :
        /\ m.op = "fetchBoard"
        /\ m.stage = "response"
        /\ net' = net \ {m}
        /\ isLoading' = FALSE
        /\ IF Ok(m.outcome)
           THEN boardData' = m.body /\ UNCHANGED error
           ELSE /\ error' = ErrorMessage(m.outcome, "Failed to fetch board data")
                /\ UNCHANGED boardData
        /\ UNCHANGED <<filter, nCalls, serverVars, heapVars>>

\* a store operation sends its request: nothing else changes before the await
Call(op, req) ==
    /\ nCalls' = nCalls + 1
    /\ net' = net \cup {Message(nCalls + 1, op, req, User, Null)}
    /\ UNCHANGED <<boardData, isLoading, error, filter, serverVars, heapVars>>

\* a variant that re-fetches after a failed request as well
SettledAlwaysRefetches(m, fallback) ==
    /\ isLoading' = TRUE
    /\ error' = NoError
    /\ net' = (net \ {m}) \cup {FetchMessage(m.n, [op |-> m.op])}
    /\ UNCHANGED <<boardData, filter, nCalls, serverVars, heapVars>>

\* createTask, updateTask, deleteTask after the await: fetchBoard (up to
\* its await) on success, error set on failure
Settled(m, fallback) ==
    /\ IF Ok(m.outcome)
       THEN /\ isLoading' = TRUE
            /\ error' = NoError
            /\ net' = (net \ {m}) \cup {FetchMessage(m.n, [op |-> m.op])}
       ELSE /\ error' = ErrorMessage(m.outcome, fallback)
            /\ net' = net \ {m}
            /\ UNCHANGED isLoading
    /\ UNCHANGED <<boardData, filter, nCalls, serverVars, heapVars>>

createTask(title, description) ==
    /\ nCalls < MaxCalls
    /\ uuidCount + Cardinality({ m \in net : m.req.kind = "create" /\ m.stage = "request" })
          < MaxUuid
    /\ Call("createTask", [kind |-> "create", title |-> title, description |-> description])

createTaskSettled ==
    \E m \in net :
        /\ m.op = "createTask"
        /\ m.stage = "response"
        /\ Settled(m, "Failed to create task")

updateTask(id, title, description) ==
    /\ nCalls < MaxCalls
    /\ Call("updateTask", [kind |-> "update", id |-> id, title |-> title,
                           description |-> description])

updateTaskSettled ==
    \E m \in net :
        /\ m.op = "updateTask"
        /\ m.stage = "response"
        /\ Settled(m, "Failed to update task")

deleteTask(id) ==
    /\ nCalls < MaxCalls
    /\ Call("deleteTask", [kind |-> "delete", id |-> id])

deleteTaskSettled ==
    \E m \in net :
        /\ m.op = "deleteTask"
        /\ m.stage = "response"
        /\ Settled(m, "Failed to delete task")

MoveRequest(taskId, sourceColumnId, destColumnId, sourceIndex, destIndex) ==
    [ kind |-> "move", id |-> taskId,
      sourceColumnId |-> sourceColumnId, destColumnId |-> destColumnId,
      sourceIndex |-> sourceIndex, destIndex |-> destIndex ]

\* a variant that sends the request without the optimistic write
moveTaskCallNoOptimisticWrite(taskId, sourceColumnId, destColumnId, sourceIndex, destIndex) ==
    /\ nCalls < MaxCalls
    /\ nCalls' = nCalls + 1
    /\ IF boardData # Null
          /\ ~({sourceColumnId, destColumnId} \subseteq DOMAIN boardData.columns)
       THEN UNCHANGED net
       ELSE net' = net \cup
               {Message(nCalls + 1, "moveTask",
                        MoveRequest(taskId, sourceColumnId, destColumnId,
                                    sourceIndex, destIndex),
                        User,
                        IF boardData = Null THEN Null
                        ELSE optimisticData(boardData, taskId, sourceColumnId,
                                            destColumnId, sourceIndex, destIndex))}
    /\ UNCHANGED <<boardData, isLoading, error, filter, serverVars>>

\* a variant that returns early when there is no board in the cache
moveTaskCallNeedsBoard(taskId, sourceColumnId, destColumnId, sourceIndex, destIndex) ==
    /\ nCalls < MaxCalls
    /\ nCalls' = nCalls + 1
    /\ IF boardData # Null
          /\ {sourceColumnId, destColumnId} \subseteq DOMAIN boardData.columns
       THEN LET newData == optimisticData(boardData, taskId, sourceColumnId,
                                          destColumnId, sourceIndex, destIndex)
            IN  /\ boardData' = newData
                /\ net' = net \cup
                        {Message(nCalls + 1, "moveTask",
                                 MoveRequest(taskId, sourceColumnId, destColumnId,
                                             sourceIndex, destIndex),
                                 User, newData)}
       ELSE UNCHANGED <<boardData, net>>
    /\ UNCHANGED <<isLoading, error, filter, serverVars>>

\* a variant that ignores a drop while an earlier move is still in flight
moveTaskCallOneAtATime(taskId, sourceColumnId, destColumnId, sourceIndex, destIndex) ==
    /\ nCalls < MaxCalls
    /\ nCalls' = nCalls + 1
    /\ IF \E m \in net : m.op = "moveTask"
       THEN UNCHANGED <<boardData, net>>
       ELSE IF boardData = Null
       THEN /\ net' = net \cup
                    {Message(nCalls + 1, "moveTask",
                             MoveRequest(taskId, sourceColumnId, destColumnId,
                                         sourceIndex, destIndex),
                             User, Null)}
            /\ UNCHANGED boardData
       ELSE IF {sourceColumnId, destColumnId} \subseteq DOMAIN boardData.columns
       THEN LET newData == optimisticData(boardData, taskId, sourceColumnId,
                                          destColumnId, sourceIndex, destIndex)
            IN  /\ boardData' = newData
                /\ net' = net \cup
                        {Message(nCalls + 1, "moveTask",
                                 MoveRequest(taskId, sourceColumnId, destColumnId,
                                             sourceIndex, destIndex),
                                 User, newData)}
       ELSE UNCHANGED <<boardData, net>>
    /\ UNCHANGED <<isLoading, error, filter, serverVars>>

\* moveTask, up to its await.  With boardData present and a column id that
\* is no key of boardData.columns, spreading the missing taskIds throws
\* before set() and fetch() are reached.
moveTaskCall(taskId, sourceColumnId, destColumnId, sourceIndex, destIndex) ==
    /\ nCalls < MaxCalls
    /\ nCalls' = nCalls + 1
    /\ IF boardData = Null
       THEN /\ net' = net \cup
                    {Message(nCalls + 1, "moveTask",
                             MoveRequest(taskId, sourceColumnId, destColumnId,
                                         sourceIndex, destIndex),
                             User, Null)}
            /\ UNCHANGED boardData
       ELSE IF {sourceColumnId, destColumnId} \subseteq DOMAIN boardData.columns
       THEN LET newData == optimisticData(boardData, taskId, sourceColumnId,
                                          destColumnId, sourceIndex, destIndex)
            IN  /\ boardData' = newData
                /\ net' = net \cup
                        {Message(nCalls + 1, "moveTask",
                                 MoveRequest(taskId, sourceColumnId, destColumnId,
                                             sourceIndex, destIndex),
                                 User, newData)}
       ELSE UNCHANGED <<boardData, net>>
    /\ UNCHANGED <<isLoading, error, filter, serverVars>>

\* moveTask in the specifications that do not follow object identity
moveTask(taskId, sourceColumnId, destColumnId, sourceIndex, destIndex) ==
    /\ moveTaskCall(taskId, sourceColumnId, destColumnId, sourceIndex, destIndex)
    /\ UNCHANGED heapVars

\* a variant that re-fetches after a successful move as well
moveTaskSettledRefetches ==
    \E m \in net :
        /\ m.op = "moveTask"
        /\ m.stage = "response"
        /\ isLoading' = TRUE
        /\ error' = NoError
        /\ net' = (net \ {m}) \cup
                    {FetchMessage(m.n, [ op |-> "moveTask",
                                         error |-> ErrorMessage(m.outcome,
                                                                "Failed to move task"),
                                         optimistic |-> m.optimistic ])}
        /\ UNCHANGED <<boardData, filter, nCalls, serverVars, heapVars>>

\* moveTask after its await: nothing on success; on failure error is set
\* and fetchBoard is called, which runs up to its own await
moveTaskSettled ==
    \E m \in net :
        /\ m.op = "moveTask"
        /\ m.stage = "response"
        /\ IF Ok(m.outcome)
           THEN /\ net' = net \ {m}
                /\ UNCHANGED <<isLoading, error>>
           ELSE /\ isLoading' = TRUE
                /\ error' = NoError
                /\ net' = (net \ {m}) \cup
                            {FetchMessage(m.n, [ op |-> "moveTask",
                                                 error |-> ErrorMessage(m.outcome,
                                                              "Failed to move task"),
                                                 optimistic |-> m.optimistic ])}
        /\ UNCHANGED <<boardData, filter, nCalls, serverVars, heapVars>>

\* a variant that clears the error along with setting the filter
setFilterClearsError(text) ==
    /\ filter' = text
    /\ error' = NoError
    /\ UNCHANGED <<boardData, isLoading, net, nCalls, serverVars, heapVars>>

\* setFilter: stores the text typed into the filter box
setFilter(text) ==
    /\ filter' = text
    /\ UNCHANGED <<boardData, isLoading, error, net, nCalls, serverVars, heapVars>>

\* clearError: dismisses the error
clearError ==
    /\ error' = NoError
    /\ UNCHANGED <<boardData, isLoading, filter, net, nCalls, serverVars, heapVars>>

\* the server handles a request of the client and answers it
Server(io) ==
    \E m \in net :
        /\ m.stage = "request"
        /\ LET out == route(m.req, doc, uuidCount, io)
           IN  /\ doc' = out.data
               /\ uuidCount' = out.count
               /\ net' = (net \ {m}) \cup
                    {[m EXCEPT !.stage = "response",
                               !.outcome = StatusOutcome(out.res.status),
                               !.body = IF m.req.kind = "getBoard" /\ out.res.status = 200
                                        THEN out.data ELSE Null]}
        /\ UNCHANGED <<nOps, res, logged, clientVars, heapVars>>

\* fetch(...) rejects before the server has seen the request
NetworkFailure(thrown) ==
    \E m \in net :
        /\ m.stage = "request"
        /\ net' = (net \ {m}) \cup
                    {[m EXCEPT !.stage = "response", !.outcome = thrown]}
        /\ UNCHANGED <<serverVars, clientVars, heapVars>>

\* the server has handled the request, but its response does not arrive:
\* fetch(...) rejects with an Error
ResponseLost ==
    \E m \in net :
        /\ m.outcome.type = "status"
        /\ net' = (net \ {m}) \cup
                    {[m EXCEPT !.outcome = [type |-> "error", message |-> "Network error"],
                               !.body = Null]}
        /\ UNCHANGED <<serverVars, clientVars, heapVars>>

\* the calls of moveTask a drop on the rendered board makes, and two calls
\* that do not depend on the board
MoveCalls(board) ==
    { [ taskId |-> SeedTaskId, sourceColumnId |-> "todo", destColumnId |-> d,
        sourceIndex |-> 0, destIndex |-> 0 ] : d \in {"done", NoSuchColumn} }
    \cup
    IF board = Null THEN {}
    ELSE UNION { UNION {
            { [ taskId |-> board.columns[s].taskIds[i + 1],
                sourceColumnId |-> s, destColumnId |-> d,
                sourceIndex |-> i, destIndex |-> j ] :
              i \in 0 .. (Len(board.columns[s].taskIds) - 1),
              j \in 0 .. (IF s = d THEN Len(board.columns[s].taskIds) - 1
                          ELSE Len(board.columns[d].taskIds)) } :
            d \in DOMAIN board.columns } : s \in DOMAIN board.columns }

\* the store as created, or after the fetchBoard that App issues on mount
\* has loaded the document
Init ==
    /\ doc = initialData
    /\ uuidCount = 0
    /\ nOps = 0
    /\ res = NoResponse
    /\ logged = ""
    /\ net = {}
    /\ boardData \in {Null, doc}
    /\ isLoading = FALSE
    /\ error = NoError
    /\ filter = ""
    /\ nCalls = 0
    /\ NoHeap

\* a drop on the rendered board, or a call of moveTask from elsewhere
drop ==
    \E c \in MoveCalls(boardData) :
        moveTask(c.taskId, c.sourceColumnId, c.destColumnId, c.sourceIndex, c.destIndex)

Next ==
    \/ fetchBoard
    \/ fetchBoardSettled
    \/ createTask("a", Undefined)
    \/ createTaskSettled
    \/ updateTask(SeedTaskId, "a", Undefined)
    \/ updateTaskSettled
    \/ deleteTask(SeedTaskId)
    \/ deleteTaskSettled
    \/ drop
    \/ moveTaskSettled
    \/ clearError
    \/ \E io \in IoOutcomes : Server(io)
    \/ \E thrown \in ThrownOutcomes : NetworkFailure(thrown)
    \/ ResponseLost

Spec == Init /\ [][Next]_vars

\* the store used through fetchBoard and moveTask only
NextRollback ==
    \/ fetchBoard
    \/ fetchBoardSettled
    \/ drop
    \/ moveTaskSettled
    \/ \E io \in IoOutcomes : Server(io)
    \/ NetworkFailure([type |-> "error", message |-> "Network error"])
    \/ ResponseLost

SpecRollback == Init /\ [][NextRollback]_vars

\* the request of a moveTask is lost before it reaches the server
MoveRequestLost ==
    \E m \in net :
        /\ m.op = "moveTask"
        /\ m.stage = "request"
        /\ net' = (net \ {m}) \cup
                    {[m EXCEPT !.stage = "response",
                               !.outcome = [type |-> "error", message |-> "Network error"]]}
        /\ UNCHANGED <<serverVars, clientVars, heapVars>>

\* fetchBoard and moveTask with a server whose file accesses succeed and a
\* network that loses nothing but requests of moveTask: every fetchBoard is
\* answered with the document
NextResync ==
    \/ fetchBoard
    \/ fetchBoardSettled
    \/ drop
    \/ moveTaskSettled
    \/ Server("ok")
    \/ MoveRequestLost

SpecResync == Init /\ [][NextResync]_vars

\* String.prototype.toLowerCase on the texts of the documents and of the
\* filter box
toLowerCase(s) ==
    CASE s = "Welcome to your Kanban Board!" -> "welcome to your kanban board!"
      [] s = "Drag me to different columns or edit me by clicking!" ->
            "drag me to different columns or edit me by clicking!"
      [] s = "Buy milk" -> "buy milk"
      [] s = "T1" -> "t1"
      [] OTHER -> s

\* String.prototype.includes on the lowered texts: every text includes the
\* empty one and itself, and of the others these hold the letter a
includes(s, sub) ==
    \/ sub = ""
    \/ s = sub
    \/ /\ sub = "a"
       /\ s \in { "welcome to your kanban board!",
                  "drag me to different columns or edit me by clicking!" }

\* App.getFilteredTasks: the tasks a column shows, as their ids.  Ids that
\* name no task are dropped by filter(Boolean); with a filter text the tasks
\* whose title or description holds it remain.
getFilteredTasks(board, text, taskIds) ==
    LET named == SelectSeq(taskIds, LAMBDA id : id \in DOMAIN board.tasks)
        matches(id) ==
            \/ includes(toLowerCase(board.tasks[id].title), toLowerCase(text))
            \/ /\ Truthy(board.tasks[id].description)
               /\ includes(toLowerCase(board.tasks[id].description), toLowerCase(text))
        shown == IF Truthy(text) THEN SelectSeq(named, matches) ELSE named
    IN  [ i \in 1 .. Len(shown) |-> board.tasks[shown[i]].id ]

\* the DropResults the drag-and-drop library can hand to onDragEnd for the
\* rendered board: a card of a list, dropped outside every list or at a
\* position of one.  The lists are the ones Column renders, the tasks of
\* getFilteredTasks with their positions in that list as index.
DropResults(board) ==
    IF board = Null THEN {}
    ELSE LET shown(c) == getFilteredTasks(board, filter, board.columns[c].taskIds)
         IN  UNION {
               { [ draggableId |-> shown(s)[i + 1],
                   source |-> [droppableId |-> s, index |-> i],
                   destination |-> d ] :
                 i \in 0 .. (Len(shown(s)) - 1),
                 d \in {Null} \cup
                       UNION { { [droppableId |-> c, index |-> j] :
                                 j \in 0 .. (IF s = c THEN Len(shown(c)) - 1
                                             ELSE Len(shown(c))) } :
                               c \in DOMAIN board.columns } } :
               s \in DOMAIN board.columns }

\* a variant that passes every drop with a destination on to moveTask
onDragEndAlwaysMoves(result) ==
    IF result.destination = Null
    THEN UNCHANGED vars
    ELSE moveTask(result.draggableId, result.source.droppableId,
                  result.destination.droppableId, result.source.index,
                  result.destination.index)

\* App.onDragEnd
onDragEnd(result) ==
    IF result.destination = Null
    THEN UNCHANGED vars
    ELSE IF /\ result.destination.droppableId = result.source.droppableId
            /\ result.destination.index = result.source.index
    THEN UNCHANGED vars
    ELSE moveTask(result.draggableId, result.source.droppableId,
                  result.destination.droppableId, result.source.index,
                  result.destination.index)

\* the user drops a card
dragEnd ==
    \E result \in DropResults(boardData) : onDragEnd(result)

\* the board used by dragging cards, with a server whose file accesses
\* succeed and a network that loses nothing but requests of moveTask
NextDrag ==
    \/ fetchBoard
    \/ fetchBoardSettled
    \/ dragEnd
    \/ moveTaskSettled
    \/ Server("ok")
    \/ MoveRequestLost

SpecDrag == Init /\ [][NextDrag]_vars

\* the texts typed into the filter box
FilterInputs == {"", "a"}

\* the store used through fetchBoard, the three editing operations and the
\* two local setters
NextEdit ==
    \/ fetchBoard
    \/ fetchBoardSettled
    \/ createTask("a", Undefined)
    \/ createTaskSettled
    \/ updateTask(SeedTaskId, "a", Undefined)
    \/ updateTaskSettled
    \/ deleteTask(SeedTaskId)
    \/ deleteTaskSettled
    \/ \E text \in FilterInputs : setFilter(text)
    \/ clearError
    \/ \E io \in IoOutcomes : Server(io)
    \/ \E thrown \in ThrownOutcomes : NetworkFailure(thrown)
    \/ ResponseLost

SpecEdit == Init /\ [][NextEdit]_vars

\* the store used by a caller that awaits each operation before it starts
\* the next one
NextAwaited ==
    \/ net = {} /\ fetchBoard
    \/ fetchBoardSettled
    \/ net = {} /\ createTask("a", Undefined)
    \/ createTaskSettled
    \/ net = {} /\ updateTask(SeedTaskId, "a", Undefined)
    \/ updateTaskSettled
    \/ net = {} /\ deleteTask(SeedTaskId)
    \/ deleteTaskSettled
    \/ net = {} /\ drop
    \/ moveTaskSettled
    \/ \E io \in IoOutcomes : Server(io)
    \/ \E thrown \in ThrownOutcomes : NetworkFailure(thrown)
    \/ ResponseLost

SpecAwaited == Init /\ [][NextAwaited]_vars

\* a request in flight gets its response: the server answers it or the
\* network rejects it
Responds ==
    \/ \E io \in IoOutcomes : Server(io)
    \/ \E thrown \in ThrownOutcomes : NetworkFailure(thrown)

\* SpecAwaited with every request answered in the end and every continuation
\* run once its promise has settled, as the event loop does
SpecAwaitedFair ==
    /\ Init
    /\ [][NextAwaited]_vars
    /\ WF_vars(Responds)
    /\ WF_vars(fetchBoardSettled)
    /\ WF_vars(createTaskSettled)
    /\ WF_vars(updateTaskSettled)
    /\ WF_vars(deleteTaskSettled)
    /\ WF_vars(moveTaskSettled)

\* the three editing operations, overlapping freely, with a server whose
\* file accesses succeed and a network that loses nothing: responses and
\* continuations come in any order
NextOverlap ==
    \/ createTask("a", Undefined)
    \/ createTaskSettled
    \/ updateTask(SeedTaskId, "a", Undefined)
    \/ updateTaskSettled
    \/ deleteTask(SeedTaskId)
    \/ deleteTaskSettled
    \/ fetchBoardSettled
    \/ Server("ok")

SpecOverlap == Init /\ [][NextOverlap]_vars

\* a document left by an earlier run: "Buy milk" was created and the
\* welcome task dragged below it
listedData ==
    moveTaskData(createTaskData(initialData, "task-2", "Buy milk", Undefined),
                 SeedTaskId, "todo", "todo", 0, 1)

\* the store as created, or after the fetchBoard of App's mount, with a
\* board of two tasks
InitSearch ==
    /\ doc = listedData
    /\ uuidCount = 0
    /\ nOps = 0
    /\ res = NoResponse
    /\ logged = ""
    /\ net = {}
    /\ boardData \in {Null, doc}
    /\ isLoading = FALSE
    /\ error = NoError
    /\ filter = ""
    /\ nCalls = 0
    /\ NoHeap

\* the board used by typing into the filter box and dragging the cards it
\* shows, with a server whose file accesses succeed
NextSearch ==
    \/ fetchBoard
    \/ fetchBoardSettled
    \/ \E text \in FilterInputs : setFilter(text)
    \/ dragEnd
    \/ moveTaskSettled
    \/ Server("ok")

SpecSearch == InitSearch /\ [][NextSearch]_vars


-----------------------------------------------------------------------------
(* The optimistic update of moveTask on the objects of the store.  An       *)
(* address is an index of heap; an array is an object with items, a column *)
(* object refers to its taskIds array, the columns mapping refers to the   *)
(* column objects and the board refers to the columns mapping.  tasks,     *)
(* columnOrder and history are carried along by the spread and never       *)
(* written, so the board object holds them as values.                      *)

BoardTaskNames == <<"task-1", "task-2", "task-3", "task-4">>
BoardTaskIds == { BoardTaskNames[i] : i \in 1 .. MaxTasks }

\* the sequences over S without repetition
InjSeqs(S) ==
    UNION { { q \in [1 .. n -> S] : \A i, j \in 1 .. n : q[i] = q[j] => i = j } :
            n \in 0 .. Cardinality(S) }

\* the boards whose columns hold each task at most once
MoveBoards ==
    { [ tasks |-> [ i \in UNION { Range(lists[c]) : c \in ColumnIds } |->
                      [id |-> i, title |-> i, description |-> ""] ],
        columns |-> [ c \in ColumnIds |->
                        [initialData.columns[c] EXCEPT !.taskIds = lists[c]] ],
        columnOrder |-> initialData.columnOrder,
        history |-> <<>> ] :
      lists \in { l \in [ColumnIds -> InjSeqs(BoardTaskIds)] :
                     \A c, e \in ColumnIds :
                         c # e => Range(l[c]) \cap Range(l[e]) = {} } }

ColumnAddress == [todo |-> 4, inprogress |-> 5, done |-> 6]

\* the objects of a board as JSON.parse creates them
HeapOf(board) ==
    << [kind |-> "array", items |-> board.columns["todo"].taskIds],
       [kind |-> "array", items |-> board.columns["inprogress"].taskIds],
       [kind |-> "array", items |-> board.columns["done"].taskIds],
       [kind |-> "column", id |-> "todo",
        title |-> board.columns["todo"].title, taskIds |-> 1],
       [kind |-> "column", id |-> "inprogress",
        title |-> board.columns["inprogress"].title, taskIds |-> 2],
       [kind |-> "column", id |-> "done",
        title |-> board.columns["done"].title, taskIds |-> 3],
       [kind |-> "columns", cols |-> ColumnAddress],
       [kind |-> "board", tasks |-> board.tasks, columns |-> 7,
        columnOrder |-> board.columnOrder, history |-> board.history] >>

BoardAddress == 8

\* the Board Document the object at address ref holds
Deref(h, ref) ==
    LET cols == h[h[ref].columns].cols
    IN  [ tasks |-> h[ref].tasks,
          columns |-> [ c \in DOMAIN cols |->
                          [ id |-> h[cols[c]].id, title |-> h[cols[c]].title,
                            taskIds |-> h[h[cols[c]].taskIds].items ] ],
          columnOrder |-> h[ref].columnOrder,
          history |-> h[ref].history ]

\* store.ts 98-119 for column ids of the board, statement by statement;
\* copyArrays says whether the two [...taskIds] copies are made
moveTaskObjects(h, ref, taskId, sourceColumnId, destColumnId, sourceIndex, destIndex, copyArrays) ==
    LET \* const newData = { ...currentData }
        h1 == Append(h, h[ref])
        newData == Len(h1)
        cols == h1[h1[newData].columns].cols
        \* const sourceColumn = { ...newData.columns[sourceColumnId] }
        h2 == Append(h1, h1[cols[sourceColumnId]])
        sourceColumn == Len(h2)
        \* const destColumn = same ? sourceColumn : { ...newData.columns[destColumnId] }
        h3 == IF sourceColumnId = destColumnId THEN h2
              ELSE Append(h2, h2[cols[destColumnId]])
        destColumn == IF sourceColumnId = destColumnId THEN sourceColumn ELSE Len(h3)
        \* sourceColumn.taskIds = [...sourceColumn.taskIds]
        h4 == IF copyArrays
              THEN [Append(h3, h3[h3[sourceColumn].taskIds])
                        EXCEPT ![sourceColumn].taskIds = Len(h3) + 1]
              ELSE h3
        \* sourceColumn.taskIds.splice(sourceIndex, 1)
        h5 == [h4 EXCEPT ![h4[sourceColumn].taskIds].items = SpliceRemove(@, sourceIndex)]
        \* destColumn.taskIds = [...destColumn.taskIds]
        h6 == IF copyArrays
              THEN [Append(h5, h5[h5[destColumn].taskIds])
                        EXCEPT ![destColumn].taskIds = Len(h5) + 1]
              ELSE h5
        \* destColumn.taskIds.splice(destIndex, 0, taskId)
        h7 == [h6 EXCEPT ![h6[destColumn].taskIds].items =
                              SpliceInsert(@, destIndex, taskId)]
        \* newData.columns = { ...newData.columns, [s]: sourceColumn, [d]: destColumn }
        h8 == Append(h7, [ kind |-> "columns",
                           cols |-> [ c \in DOMAIN cols |->
                                        IF c = destColumnId THEN destColumn
                                        ELSE IF c = sourceColumnId THEN sourceColumn
                                        ELSE cols[c] ] ])
        h9 == [h8 EXCEPT ![newData].columns = Len(h8)]
    IN  [heap |-> h9, boardData |-> newData]

\* a variant that splices the arrays of the previous state
moveTaskHeapSplicesShared(h, ref, taskId, sourceColumnId, destColumnId, sourceIndex, destIndex) ==
    moveTaskObjects(h, ref, taskId, sourceColumnId, destColumnId, sourceIndex, destIndex,
                    FALSE)

moveTaskHeap(h, ref, taskId, sourceColumnId, destColumnId, sourceIndex, destIndex) ==
    moveTaskObjects(h, ref, taskId, sourceColumnId, destColumnId, sourceIndex, destIndex,
                    TRUE)

\* moveTask, up to its await, on the objects.  With a column id that is no
\* key of the columns mapping the call throws before set(): the objects it
\* has created are unreachable.
moveTaskOnHeap(taskId, sourceColumnId, destColumnId, sourceIndex, destIndex) ==
    /\ moveTaskCall(taskId, sourceColumnId, destColumnId, sourceIndex, destIndex)
    /\ IF {sourceColumnId, destColumnId} \subseteq DOMAIN heap[heap[boardRef].columns].cols
       THEN LET out == moveTaskHeap(heap, boardRef, taskId, sourceColumnId,
                                    destColumnId, sourceIndex, destIndex)
            IN  /\ heap' = out.heap
                /\ boardRef' = out.boardData
       ELSE UNCHANGED heapVars

\* one board, loaded into the store
InitMove ==
    /\ doc \in MoveBoards
    /\ uuidCount = 0
    /\ nOps = 0
    /\ res = NoResponse
    /\ logged = ""
    /\ net = {}
    /\ boardData = doc
    /\ isLoading = FALSE
    /\ error = NoError
    /\ filter = ""
    /\ nCalls = 0
    /\ heap = HeapOf(boardData)
    /\ boardRef = BoardAddress

\* the first drop on the board
dropOnHeap ==
    \E c \in MoveCalls(boardData) :
        /\ nCalls = 0
        /\ moveTaskOnHeap(c.taskId, c.sourceColumnId, c.destColumnId,
                          c.sourceIndex, c.destIndex)

NextMove == dropOnHeap

SpecMove == InitMove /\ [][NextMove]_vars

\* the indices a caller may pass: in range, past the end, negative
AnyIndices == -1 .. MaxIdx

\* one board, persisted and loaded into the store
InitAgree ==
    /\ doc \in MoveBoards
    /\ uuidCount = 0
    /\ nOps = 0
    /\ res = NoResponse
    /\ logged = ""
    /\ net = {}
    /\ boardData = doc
    /\ isLoading = FALSE
    /\ error = NoError
    /\ filter = ""
    /\ nCalls = 0
    /\ NoHeap

\* the first call of moveTask, for a task and two columns of the board and
\* any indices
moveAny ==
    \E taskId \in DOMAIN boardData.tasks, s, d \in DOMAIN boardData.columns,
       i, j \in AnyIndices :
        /\ nCalls = 0
        /\ moveTask(taskId, s, d, i, j)

\* one moveTask on a loaded board, its request handled by a server whose
\* file accesses succeed
NextAgree ==
    \/ moveAny
    \/ Server("ok")
    \/ moveTaskSettled

SpecAgree == InitAgree /\ [][NextAgree]_vars

\* the first call of moveTask: a task of the board, from its place to a
\* place of some column
moveThere ==
    \E c \in MoveCalls(boardData) :
        /\ nCalls = 0
        /\ c.destColumnId \in DOMAIN boardData.columns
        /\ c.sourceIndex < Len(boardData.columns[c.sourceColumnId].taskIds)
        /\ boardData.columns[c.sourceColumnId].taskIds[c.sourceIndex + 1] = c.taskId
        /\ moveTask(c.taskId, c.sourceColumnId, c.destColumnId,
                    c.sourceIndex, c.destIndex)

\* the second call takes the task back: columns and indices exchanged
moveBack ==
    \E m \in net :
        /\ nCalls = 1
        /\ m.n = 1
        /\ moveTask(m.req.id, m.req.destColumnId, m.req.sourceColumnId,
                    m.req.destIndex, m.req.sourceIndex)

\* the server handles the requests in the order of the calls
ServerInOrder ==
    /\ Server("ok")
    /\ \A m, k \in net' : (m.stage = "response" /\ k.stage = "request") => m.n < k.n

\* a move and its inverse on a loaded board, the requests handled after both
\* calls or in between
NextInverse ==
    \/ moveThere
    \/ moveBack
    \/ ServerInOrder

SpecInverse == InitAgree /\ [][NextInverse]_vars

-----------------------------------------------------------------------------
(* Claims about the Board Store                                            *)

\* how often id occurs in the taskIds of all columns of data together
Occurrences(data, id) ==
    Cardinality(UNION { { <<c, i>> : i \in { j \in DOMAIN data.columns[c].taskIds :
                                               data.columns[c].taskIds[j] = id } } :
                        c \in DOMAIN data.columns })

\* the first n elements of seq
Take(seq, n) == SubSeq(seq, 1, Min(n, Len(seq)))

\* C1: in every reachable persisted document every task id occurs in the
\* taskIds of at most one column, and at most once in total
C1_MembershipAtMostOnce ==
    \A id \in TaskIdInputs : Occurrences(doc, id) <= 1

\* C2: history never holds more than 5 entries, and a step that changes it
\* puts one new entry at index 0, keeps the earlier entries in their order
\* behind it, and drops the last one when there would be six
C2_HistoryBoundedNewestFirst ==
    /\ [](Len(doc.history) <= 5)
    /\ [][ doc'.history # doc.history =>
             /\ Len(doc'.history) = Min(Len(doc.history) + 1, 5)
             /\ \A i \in 2 .. Len(doc'.history) :
                    doc'.history[i] = doc.history[i - 1] ]_vars

\* C2 witness: two logged operations on the document that held four
\* entries: the oldest entry is gone, the others moved back by two
C2_Witness ==
    /\ Len(doc.history) = 5
    /\ nOps = 2
    /\ doc.history[1] = <<"Deleted task: \"", "a", "\"">>
    /\ doc.history[2] = <<"Created task: \"", "a", "\"">>
    /\ doc.history[5] = editedData.history[3]
    /\ editedData.history[4] \notin Range(doc.history)

\* C9: a successful move within one column adds no history entry; a
\* successful move between two columns adds exactly one, the Moved entry
\* with the task's title and the two columns' titles, at the front
C9_MoveLoggingPolicy ==
    [][ \A r \in net :
          (r.kind = "move" /\ res'.status = 200) =>
             IF r.sourceColumnId = r.destColumnId
             THEN doc'.history = doc.history
             ELSE /\ Len(doc'.history) = Min(Len(doc.history) + 1, 5)
                  /\ r.id \in DOMAIN doc.tasks =>
                        doc'.history =
                           Take(<< <<"Moved \"", doc.tasks[r.id].title, "\" from ",
                                     doc.columns[r.sourceColumnId].title, " to ",
                                     doc.columns[r.destColumnId].title>> >>
                                \o doc.history, 5) ]_vars

\* C9 witness: the seed task has been moved from To Do to Done, and then
\* again within Done
C9_Witness ==
    /\ res.status = 200
    /\ nOps = 2
    /\ doc.columns["done"].taskIds = <<SeedTaskId>>
    /\ doc.history = << <<"Moved \"", "Welcome to your Kanban Board!", "\" from ",
                          "To Do", " to ", "Done">> >>

\* String.prototype.trim on the titles a request carries
Trim(s) == IF s = " " THEN "" ELSE s

\* C10: createTask with a missing, empty or whitespace-only title is
\* answered 400 and leaves the persisted document as it was
C10_BlankTitleRejected ==
    [][ \A r \in net :
          (r.kind = "create" /\ net' = {}
             /\ (r.title = Undefined \/ Trim(r.title) = "")) =>
               /\ res'.status = 400
               /\ doc'.tasks = doc.tasks
               /\ doc'.columns = doc.columns
               /\ doc'.history = doc.history ]_vars

-----------------------------------------------------------------------------
(* Claims about the Client Cache                                           *)

\* the continuation of the operation that awaits m runs in this step: m
\* has been answered and the operation awaits it no longer
Continued(m) ==
    /\ m.stage = "response"
    /\ ~ \E k \in net' : k.n = m.n /\ k.op = m.op

RollbackFetch(m) == m.op = "fetchBoard" /\ m.caller.op = "moveTask"

MovedEntry ==
    <<"Moved \"", "Welcome to your Kanban Board!", "\" from ", "To Do", " to ", "Done">>

\* C7: when the move request succeeds, moveTask's continuation issues no
\* re-fetch and leaves boardData, error and isLoading as they are
C7_SuccessfulMoveChangesNothing ==
    [][ \A m \in net :
          (m.op = "moveTask" /\ Continued(m) /\ Ok(m.outcome)) =>
             /\ net' = net \ {m}
             /\ boardData' = boardData
             /\ error' = error
             /\ isLoading' = isLoading ]_vars

\* C7 witness: the seed task was dragged to Done and the request has
\* succeeded; the cache still holds the optimistic result, without the
\* Moved entry that the server has logged
C7_Witness ==
    /\ net = {}
    /\ nCalls = 1
    /\ boardData # Null
    /\ boardData.columns = doc.columns
    /\ boardData.columns["done"].taskIds = <<SeedTaskId>>
    /\ boardData.history = <<>>
    /\ doc.history = <<MovedEntry>>
    /\ error = NoError
    /\ ~isLoading

\* C5: when moveTask's rollback re-fetch has completed, error holds the
\* message of the move's failure
C5_MoveErrorSurvivesRollback ==
    [][ \A m \in net :
          (RollbackFetch(m) /\ Continued(m)) => error' = m.caller.error ]_vars

C6_InFlightMoveIsReflected ==
    \A m \in net :
        (m.op = "moveTask" /\ m.optimistic # Null /\ m.n = nCalls) =>
            boardData = m.optimistic

\* C6 amended: the step that issues the move request has written the
\* optimistic result to boardData, and while the request is in flight or
\* answered boardData stops being that result only when another moveTask
\* writes its own or a fetchBoard response is stored
C6_OptimisticWriteBeforeRequest ==
    /\ [][ \A k \in net' \ net :
             (k.op = "moveTask" /\ k.stage = "request" /\ boardData # Null) =>
                /\ k.optimistic =
                      optimisticData(boardData, k.req.id, k.req.sourceColumnId,
                                     k.req.destColumnId, k.req.sourceIndex,
                                     k.req.destIndex)
                /\ boardData' = k.optimistic ]_vars
    /\ [][ \A m \in net :
             (m.op = "moveTask" /\ m.optimistic # Null
                /\ boardData = m.optimistic /\ boardData' # m.optimistic) =>
                   \/ \E k \in net' \ net : k.op = "moveTask" /\ k.stage = "request"
                   \/ \E f \in net : f.op = "fetchBoard" /\ Continued(f)
                                       /\ Ok(f.outcome) ]_vars

\* C6 witness: the request to move the seed task to Done has been issued
\* and the server has not handled it: the cache shows the task in Done
C6_Witness ==
    \E m \in net :
        /\ m.op = "moveTask"
        /\ m.stage = "request"
        /\ m.optimistic # Null
        /\ boardData = m.optimistic
        /\ boardData.columns["todo"].taskIds = <<>>
        /\ boardData.columns["done"].taskIds = <<SeedTaskId>>
        /\ doc.columns["todo"].taskIds = <<SeedTaskId>>

-----------------------------------------------------------------------------
(* Claims about the optimistic move                                        *)

\* seq without its element at position i (from 1)
Without(seq, i) ==
    [ j \in 1 .. (Len(seq) - 1) |-> IF j < i THEN seq[j] ELSE seq[j + 1] ]

\* the move request issued in this step
Issued(k) == k \in net' \ net /\ k.op = "moveTask" /\ k.stage = "request"

\* the indices of the move are in range of the lists of board, and the
\* source list holds the task at sourceIndex
InRange(board, r) ==
    LET src == board.columns[r.sourceColumnId].taskIds
        dst == board.columns[r.destColumnId].taskIds
    IN  /\ r.sourceIndex \in 0 .. (Len(src) - 1)
        /\ src[r.sourceIndex + 1] = r.id
        /\ r.destIndex \in 0 .. (IF r.sourceColumnId = r.destColumnId
                                 THEN Len(src) - 1 ELSE Len(dst))

\* C3: a move with in-range indices of the task at sourceIndex removes
\* that element from the source list and puts the task at destIndex of the
\* destination list (counted after the removal within one column); every
\* other id keeps its column and its order
C3_MoveRemovesAndInserts ==
    [][ \A k \in net' \ net :
          (Issued(k) /\ boardData # Null /\ InRange(boardData, k.req)) =>
             LET s == k.req.sourceColumnId
                 d == k.req.destColumnId
                 src == boardData.columns[s].taskIds
                 dst == boardData.columns[d].taskIds
                 newSrc == boardData'.columns[s].taskIds
                 newDst == boardData'.columns[d].taskIds
             IN  /\ newDst[k.req.destIndex + 1] = k.req.id
                 /\ IF s = d
                    THEN /\ Len(newDst) = Len(src)
                         /\ Without(newDst, k.req.destIndex + 1)
                               = Without(src, k.req.sourceIndex + 1)
                    ELSE /\ newSrc = Without(src, k.req.sourceIndex + 1)
                         /\ Len(newDst) = Len(dst) + 1
                         /\ Without(newDst, k.req.destIndex + 1) = dst
                 /\ \A c \in DOMAIN boardData.columns \ {s, d} :
                        boardData'.columns[c] = boardData.columns[c]
                 /\ DOMAIN boardData'.columns = DOMAIN boardData.columns ]_vars

\* C3, the two examples: ['task-1','task-3'] moved 0 to 1 within the column
\* gives ['task-3','task-1']; ['task-1'] and ['task-2'] moved across at
\* (0,1) gives [] and ['task-2','task-1']
C3_Examples ==
    [][ \A k \in net' \ net :
          (Issued(k) /\ boardData # Null /\ k.req.id = "task-1"
             /\ k.req.sourceColumnId = "todo" /\ k.req.sourceIndex = 0
             /\ k.req.destIndex = 1) =>
             /\ (k.req.destColumnId = "todo"
                   /\ boardData.columns["todo"].taskIds = <<"task-1", "task-3">>)
                  => boardData'.columns["todo"].taskIds = <<"task-3", "task-1">>
             /\ (k.req.destColumnId = "inprogress"
                   /\ boardData.columns["todo"].taskIds = <<"task-1">>
                   /\ boardData.columns["inprogress"].taskIds = <<"task-2">>)
                  => /\ boardData'.columns["todo"].taskIds = <<>>
                     /\ boardData'.columns["inprogress"].taskIds
                           = <<"task-2", "task-1">> ]_vars

C3_Move == C3_MoveRemovesAndInserts /\ C3_Examples

\* C3 witness: task-1 has been moved from index 0 to index 1 of the column
\* that held task-1, task-3
C3_Witness ==
    /\ nCalls = 1
    /\ doc.columns["todo"].taskIds = <<"task-1", "task-3">>
    /\ boardData.columns["todo"].taskIds = <<"task-3", "task-1">>
    /\ \E m \in net :
          /\ m.req = MoveRequest("task-1", "todo", "todo", 0, 1)
          /\ m.optimistic = boardData

\* the addresses of the board at ref, its columns mapping, the column
\* objects of the columns cs and their taskIds arrays
Addresses(h, ref, cs) ==
    LET cols == h[h[ref].columns].cols
    IN  [ board |-> ref,
          columns |-> h[ref].columns,
          column |-> [ c \in cs |-> cols[c] ],
          taskIds |-> [ c \in cs |-> h[cols[c]].taskIds ] ]

\* C8: an optimistic move writes to no object of the previous state, and
\* the new boardData, its columns mapping, the column objects of the two
\* affected columns and their taskIds arrays are objects created by the move
C8_MoveNeverMutates ==
    /\ [](heap # <<>> => boardData = Deref(heap, boardRef))
    /\ [][ \A k \in net' \ net :
             (Issued(k) /\ heap # <<>>) =>
                LET cs == {k.req.sourceColumnId, k.req.destColumnId}
                    old == Addresses(heap, boardRef, cs)
                    new == Addresses(heap', boardRef', cs)
                    Created(a) == a \in (Len(heap) + 1) .. Len(heap')
                IN  /\ \A a \in 1 .. Len(heap) : heap'[a] = heap[a]
                    /\ Deref(heap', boardRef) = boardData
                    /\ Created(new.board) /\ new.board # old.board
                    /\ Created(new.columns) /\ new.columns # old.columns
                    /\ \A c \in cs :
                          /\ Created(new.column[c])
                          /\ new.column[c] # old.column[c]
                          /\ Created(new.taskIds[c])
                          /\ new.taskIds[c] # old.taskIds[c] ]_vars

\* C8 witness: task-1 has been moved from To Do to In Progress: the board
\* object of before still holds it in To Do, the store refers to another
\* board object, which holds it in In Progress
C8_Witness ==
    /\ heap # <<>>
    /\ boardRef # BoardAddress
    /\ Deref(heap, BoardAddress).columns["todo"].taskIds = <<"task-1">>
    /\ Deref(heap, BoardAddress).columns["inprogress"].taskIds = <<"task-2">>
    /\ Deref(heap, boardRef).columns["todo"].taskIds = <<>>
    /\ Deref(heap, boardRef).columns["inprogress"].taskIds = <<"task-2", "task-1">>
    /\ heap[heap[boardRef].columns].cols["done"] = ColumnAddress["done"]

-----------------------------------------------------------------------------
(* Claims about the Board Store, continued                                 *)

\* C11: a successful createTask adds exactly one task, appends its id at
\* the end of the first column of columnOrder, leaves the other columns
\* unchanged and puts the Created entry at the front of history
C11_CreateAppendsToFirstColumn ==
    [][ \A r \in net :
          (r.kind = "create" /\ res'.status = 201) =>
             LET first == doc.columnOrder[1]
                 added == DOMAIN doc'.tasks \ DOMAIN doc.tasks
             IN  /\ Cardinality(added) = 1
                 /\ \A id \in DOMAIN doc.tasks : doc'.tasks[id] = doc.tasks[id]
                 /\ \A id \in added :
                       /\ doc'.tasks[id].title = r.title
                       /\ doc'.columns[first].taskIds
                             = Append(doc.columns[first].taskIds, id)
                 /\ \A c \in DOMAIN doc.columns \ {first} :
                       doc'.columns[c] = doc.columns[c]
                 /\ doc'.history
                       = Take(<< <<"Created task: \"", r.title, "\"">> >> \o doc.history, 5)
          ]_vars

\* C12: on the board with column-1 = ['t1'] and column-2 = [], the first
\* step of the scenario, createTask('Buy milk') with the data file readable
\* and writable, appends the new id to column-1 and logs the creation
C12_BuyMilkIsCreated ==
    [][ \A r \in net :
          (r.kind = "create" /\ r.title = "Buy milk" /\ doc = customData
             /\ res'.status # 500) =>
             /\ res'.status = 201
             /\ doc'.columns["column-1"].taskIds = <<"t1", Uuid(uuidCount')>>
             /\ doc'.columns["column-2"].taskIds = <<>>
             /\ doc'.history = << <<"Created task: \"", "Buy milk", "\"">> >> ]_vars

\* C13: an update, delete or move that names a task id absent from tasks is
\* answered 404; a move of an existing task that names a source or a
\* destination column absent from columns is answered 400 (the task is looked
\* up first); in both cases the persisted document stays as it was.
C13_RejectedRequestsWriteNothing ==
    [][ \A r \in net :
          /\ (r.kind \in {"update", "delete", "move"} /\ r.id \notin DOMAIN doc.tasks) =>
                (res'.status = 404 /\ doc' = doc)
          /\ (/\ r.kind = "move"
              /\ logged' # "Error reading data:"
              /\ r.id \in DOMAIN doc.tasks
              /\ \/ r.sourceColumnId \notin DOMAIN doc.columns
                 \/ r.destColumnId \notin DOMAIN doc.columns) =>
                (res'.status = 400 /\ doc' = doc) ]_vars

\* C14: an update, delete or move whose readData fails (and logs "Error
\* reading data:") is answered 500, and a 404 is answered only when the document was
\* read and the task id is absent from tasks.
C14_UnreadableDocumentIs500 ==
    [][ \A r \in net :
          r.kind \in {"update", "delete", "move"} =>
             /\ logged' = "Error reading data:" => res'.status = 500
             /\ res'.status = 404 =>
                   (logged' = "" /\ r.id \notin DOMAIN doc.tasks) ]_vars

-----------------------------------------------------------------------------
(* Claims about the Client Cache                                            *)

\* C15: when the request of a fetchBoard fails (a status outside 200..299, or
\* a rejected fetch), its continuation sets error to the message made from the
\* failure, sets isLoading to false and leaves boardData as it was
C15_FailedFetchKeepsBoard ==
    [][ \A m \in net :
          (m.op = "fetchBoard" /\ Continued(m) /\ ~Ok(m.outcome)) =>
             /\ error' = ErrorMessage(m.outcome, "Failed to fetch board data")
             /\ error' # NoError
             /\ isLoading' = FALSE
             /\ boardData' = boardData ]_vars

\* a fetchBoard has failed with a loaded board in the cache
C15_Witness ==
    /\ error = <<"Failed to fetch board data">>
    /\ boardData = initialData
    /\ ~isLoading
    /\ net = {}

\* C16 as stated: a fetchBoard sets isLoading and clears error in the step
\* that issues its request, and its continuation on a successful response
\* stores the returned document, clears isLoading and finds error null
C16_SuccessfulFetchFindsNoError ==
    [][ /\ \A k \in net' \ net :
             (k.op = "fetchBoard" /\ k.stage = "request") =>
                (isLoading' = TRUE /\ error' = NoError)
        /\ \A m \in net :
             (m.op = "fetchBoard" /\ Continued(m) /\ Ok(m.outcome)) =>
                /\ boardData' = m.body
                /\ isLoading' = FALSE
                /\ error' = NoError ]_vars

\* C16: a fetchBoard sets isLoading and clears error in the step that issues
\* its request, and its continuation on a successful response stores the
\* returned document, clears isLoading and leaves error as it finds it
C16_SuccessfulFetchReplacesBoard ==
    [][ /\ \A k \in net' \ net :
             (k.op = "fetchBoard" /\ k.stage = "request") =>
                (isLoading' = TRUE /\ error' = NoError)
        /\ \A m \in net :
             (m.op = "fetchBoard" /\ Continued(m) /\ Ok(m.outcome)) =>
                /\ boardData' = m.body
                /\ m.body # Null
                /\ isLoading' = FALSE
                /\ error' = error ]_vars

\* a fetchBoard has stored a document that differs from the one the store
\* started with
C16_Witness ==
    /\ boardData = doc
    /\ doc # initialData
    /\ ~isLoading
    /\ error = NoError
    /\ net = {}

EditFallback ==
    [ createTask |-> "Failed to create task",
      updateTask |-> "Failed to update task",
      deleteTask |-> "Failed to delete task" ]

\* C17: createTask, updateTask and deleteTask leave boardData alone when they
\* send their request; on a successful response the continuation starts
\* exactly one fetchBoard and still leaves boardData alone; on a failed one it
\* sets error to the message made from the failure, starts no fetchBoard and
\* leaves boardData and isLoading as they were
C17_EditsRefetchOnSuccessOnly ==
    [][ /\ \A k \in net' \ net :
             (k.op \in DOMAIN EditFallback /\ k.stage = "request") =>
                UNCHANGED <<boardData, isLoading, error>>
        /\ \A m \in net :
             (m.op \in DOMAIN EditFallback /\ Continued(m)) =>
                IF Ok(m.outcome)
                THEN /\ boardData' = boardData
                     /\ \E k \in net' :
                           /\ net' = (net \ {m}) \cup {k}
                           /\ k \notin net
                           /\ k.op = "fetchBoard"
                           /\ k.stage = "request"
                     /\ isLoading' = TRUE
                ELSE /\ error' = ErrorMessage(m.outcome, EditFallback[m.op])
                     /\ net' = net \ {m}
                     /\ boardData' = boardData
                     /\ isLoading' = isLoading ]_vars

\* a createTask has succeeded: the server holds the new task, the re-fetch is
\* on its way and the cache still shows the board as it was
C17_Witness ==
    /\ \E k \in net :
          k.op = "fetchBoard" /\ k.caller.op = "createTask" /\ k.stage = "request"
    /\ boardData = initialData
    /\ Uuid(1) \in DOMAIN doc.tasks
    /\ isLoading

\* C18: a moveTask called while boardData is null sends the move request with
\* the arguments it was given and leaves boardData null
C18_MoveWithoutBoardIsSent ==
    [][ \A c \in MoveCalls(Null) :
          (/\ boardData = Null
           /\ moveTask(c.taskId, c.sourceColumnId, c.destColumnId,
                       c.sourceIndex, c.destIndex)) =>
             /\ boardData' = Null
             /\ \E k \in net' \ net :
                   /\ k.op = "moveTask"
                   /\ k.stage = "request"
                   /\ k.req = [ kind |-> "move", id |-> c.taskId,
                                sourceColumnId |-> c.sourceColumnId,
                                destColumnId |-> c.destColumnId,
                                sourceIndex |-> c.sourceIndex,
                                destIndex |-> c.destIndex ] ]_vars

\* the request of a moveTask called without a board is on its way
C18_Witness ==
    /\ boardData = Null
    /\ nCalls = 1
    /\ \E k \in net :
          k.op = "moveTask" /\ k.stage = "request" /\ k.req.destColumnId = NoSuchColumn

Fallback ==
    [ fetchBoard |-> "Failed to fetch board data",
      moveTask |-> "Failed to move task" ] @@ EditFallback

\* the value the catch block of the operation awaiting m passes to set() in
\* this step: moveTask calls fetchBoard right after, which sets error to
\* null again, so its value is read off the call
Stored(m) ==
    IF m.op = "moveTask"
    THEN (CHOOSE k \in net' \ net : k.caller.op = "moveTask").caller.error
    ELSE error'

\* C19: when the request of fetchBoard, createTask, updateTask, deleteTask or
\* moveTask fails, the error its catch block stores is "HTTP error! status:
\* <code>" for a response with a status outside 200..299, the message of the
\* Error for a rejection with an Error, and the fallback text of the operation
\* for any other thrown value
C19_ErrorIsNormalized ==
    [][ \A m \in net :
          (m.op \in DOMAIN Fallback /\ Continued(m) /\ ~Ok(m.outcome)) =>
             /\ m.outcome.type = "status" =>
                   /\ Stored(m) = <<"HTTP error! status: ", ToString(m.outcome.status)>>
                   /\ m.outcome.status \in {400, 404, 500}
             /\ m.outcome.type = "error" => Stored(m) = <<m.outcome.message>>
             /\ m.outcome.type = "value" => Stored(m) = <<Fallback[m.op]>>
             /\ m.outcome.type \in {"status", "error", "value"} ]_vars

\* a deleteTask has failed with a thrown value that is no Error
C19_Witness ==
    /\ error = <<"Failed to delete task">>
    /\ net = {}

\* C20: in every state setFilter can run and changes filter alone, and
\* clearError can run and changes error alone, to null; neither adds a
\* request to the network or changes boardData or isLoading
C20_SettersAreLocal ==
    [][ /\ \A text \in FilterInputs :
             /\ ENABLED setFilter(text)
             /\ setFilter(text) =>
                   (filter' = text /\ UNCHANGED <<boardData, isLoading, error, net, doc>>)
        /\ ENABLED clearError
        /\ clearError =>
              (error' = NoError /\ UNCHANGED <<boardData, isLoading, filter, net, doc>>)
      ]_vars

\* the one operation called has failed without a board in the cache; since
\* then the error has been cleared and the filter set
C20_Witness ==
    /\ nCalls = 1
    /\ net = {}
    /\ boardData = Null
    /\ ~isLoading
    /\ error = NoError
    /\ filter = "a"

-----------------------------------------------------------------------------
(* Claims about the Board Document                                          *)

\* C21: an update answered 200 keeps the title when the request carries an
\* empty title or none and stores the supplied one otherwise, stores the
\* description whenever the request carries one (the empty string included)
\* and keeps it otherwise, changes no column and no other task, and puts one
\* entry naming the old and the resulting title in front of the history
C21_UpdateAppliesSuppliedFields ==
    [][ \A r \in net :
          (r.kind = "update" /\ res'.status = 200) =>
             LET old == doc.tasks[r.id]
                 new == doc'.tasks[r.id]
             IN  /\ new.title = IF r.title \in {Undefined, ""} THEN old.title ELSE r.title
                 /\ new.description =
                       IF r.description = Undefined THEN old.description ELSE r.description
                 /\ DOMAIN doc'.tasks = DOMAIN doc.tasks
                 /\ \A id \in DOMAIN doc.tasks \ {r.id} : doc'.tasks[id] = doc.tasks[id]
                 /\ doc'.columns = doc.columns
                 /\ doc'.columnOrder = doc.columnOrder
                 /\ doc'.history =
                       Take(<< <<"Updated task: \"", old.title, "\" -> \"", new.title, "\"">> >>
                              \o doc.history, 5) ]_vars

\* an update with an empty title and an empty description has been applied
\* to the welcome task
C21_Witness ==
    /\ res.status = 200
    /\ nOps = 1
    /\ doc.tasks[SeedTaskId].title = "Welcome to your Kanban Board!"
    /\ doc.tasks[SeedTaskId].description = ""
    /\ doc.history = << <<"Updated task: \"", "Welcome to your Kanban Board!", "\" -> \"",
                          "Welcome to your Kanban Board!", "\"">> >>

\* I4: every id in a column's taskIds is a key of tasks
TaskIdsAreTasks(data) ==
    \A c \in DOMAIN data.columns : Range(data.columns[c].taskIds) \subseteq DOMAIN data.tasks

\* C22: every id in the taskIds of a column of the persisted document is a
\* key of its tasks, in every reachable state; and a delete answered 204
\* leaves the id neither in tasks nor in any column
C22_TaskIdsAreTasks ==
    /\ []TaskIdsAreTasks(doc)
    /\ [][ \A r \in net :
            (r.kind = "delete" /\ res'.status = 204) =>
               /\ r.id \notin DOMAIN doc'.tasks
               /\ \A c \in DOMAIN doc'.columns : r.id \notin Range(doc'.columns[c].taskIds)
          ]_vars

\* the column ids of data and their order are those of the seed document
SameColumns(data) ==
    /\ data.columnOrder = initialData.columnOrder
    /\ DOMAIN data.columns = DOMAIN initialData.columns
    /\ Range(data.columnOrder) = DOMAIN data.columns

\* C23: whatever the server has handled and the client has done, optimistic
\* moves included, columnOrder and the keys of columns are those the document
\* started with: in the persisted document, in the cached one and in every
\* document on its way from the server to the cache
C23_ColumnsNeverChange ==
    /\ SameColumns(doc)
    /\ boardData # Null => SameColumns(boardData)
    /\ \A m \in net : m.body # Null => SameColumns(m.body)

\* the cache shows an optimistic move of the welcome task to Done while the
\* server holds a document changed by an earlier operation
C23_Witness ==
    /\ boardData # Null
    /\ boardData.columns["done"].taskIds = <<SeedTaskId>>
    /\ doc.columns["done"].taskIds = <<>>
    /\ doc.history # <<>>

\* the document a handler builds from the one it has read
Built(h) ==
    CASE h.req.kind = "create" ->
            createTaskData(h.snapshot, Uuid(h.count + 1), h.req.title, h.req.description)
      [] h.req.kind = "update" ->
            updateTaskData(h.snapshot, h.req.id, h.req.title, h.req.description)
      [] h.req.kind = "delete" -> deleteTaskData(h.snapshot, h.req.id)
      [] h.req.kind = "move" ->
            moveTaskData(h.snapshot, h.req.id, h.req.sourceColumnId, h.req.destColumnId,
                         h.req.sourceIndex, h.req.destIndex)

Succeeded(h) == h.stage = "done" /\ h.status \in {200, 201, 204}

\* C24: a handler's read never waits for another handler's write, and the
\* write of a handler that answers with success stores the document it built
\* from what it had read, whatever the file holds by then; so when two
\* handlers read before either writes, the later write removes the effect of
\* the earlier one
C24_WriteStoresOwnSnapshot ==
    [][ /\ (\E h \in net : h.stage = "sent") => ENABLED ReadData("ok")
        /\ \A h \in net :
             (h.stage = "read" /\ \E k \in net' : k.n = h.n /\ Succeeded(k)) =>
                doc' = Built(h) ]_vars

\* a create and an update have both been answered with success, and the
\* persisted document holds the new title but not the new task
C24_Witness ==
    \E a, b \in net :
        /\ a.req.kind = "create" /\ Succeeded(a)
        /\ b.req.kind = "update" /\ Succeeded(b)
        /\ doc.tasks[SeedTaskId].title = "a"
        /\ Uuid(1) \notin DOMAIN doc.tasks
        /\ uuidCount = 1

\* C25: a moveTask called while an earlier move is in flight computes its
\* optimistic board from boardData as it is then, stores it and adds its own
\* request without touching the ones in flight; and the continuation of a
\* move runs for whichever response has arrived and leaves the other
\* messages alone
C25_OverlappingMovesAreIndependent ==
    /\ []((\E m \in net : m.op = "moveTask" /\ m.stage = "response") =>
            ENABLED moveTaskSettled)
    /\ [][ /\ (/\ nCalls' # nCalls
               /\ boardData # Null
               /\ \E m \in net : m.op = "moveTask") =>
              \A c \in MoveCalls(boardData) :
                (/\ {c.sourceColumnId, c.destColumnId} \subseteq DOMAIN boardData.columns
                 /\ moveTask(c.taskId, c.sourceColumnId, c.destColumnId,
                             c.sourceIndex, c.destIndex)) =>
                   /\ boardData'.columns =
                         optimisticColumns(boardData.columns, c.taskId, c.sourceColumnId,
                                           c.destColumnId, c.sourceIndex, c.destIndex)
                   /\ net \subseteq net'
                   /\ \E k \in net' \ net :
                         /\ net' = net \cup {k}
                         /\ k.op = "moveTask"
                         /\ k.stage = "request"
                         /\ k.req.id = c.taskId
           /\ \A m \in net :
                (m.op = "moveTask" /\ Continued(m)) =>
                   \A k \in net \ {m} : k \in net' ]_vars

\* the welcome task was dragged to Done and from there to In Progress; the
\* second move has been answered and handled, the first is still in flight
C25_Witness ==
    /\ nCalls = 2
    /\ \E m \in net : m.op = "moveTask" /\ m.n = 1 /\ m.req.destColumnId = "done"
    /\ ~ \E k \in net : k.n = 2
    /\ boardData # Null
    /\ boardData.columns["inprogress"].taskIds = <<SeedTaskId>>
    /\ boardData.columns["done"].taskIds = <<>>
    /\ boardData.columns["todo"].taskIds = <<>>
    /\ error = NoError
    /\ ~isLoading

\* the columns of a and b hold the same task ids in the same order
SameTaskIds(a, b) ==
    /\ DOMAIN a.columns = DOMAIN b.columns
    /\ \A c \in DOMAIN a.columns : a.columns[c].taskIds = b.columns[c].taskIds

\* C26: when the re-fetch of a failed move of a loaded board is answered with
\* the document and its continuation leaves no request in flight, every other request having
\* been answered with success as well, the columns of boardData hold the task
\* ids of the persisted document
C26_RollbackEndsConsistent ==
    [][ \A m \in net :
          (/\ RollbackFetch(m)
           /\ m.caller.optimistic # Null
           /\ Continued(m)
           /\ Ok(m.outcome)
           /\ net' = {}) =>
             SameTaskIds(boardData', doc') ]_vars

\* the drop has no destination, or its destination is the place it came from
NoMove(result) ==
    \/ result.destination = Null
    \/ /\ result.destination.droppableId = result.source.droppableId
       /\ result.destination.index = result.source.index

\* C27: onDragEnd changes nothing (no call of moveTask, no request, no
\* history entry) for a drop without a destination or onto the position the
\* card came from, and calls moveTask with the ids and indices of the drop
\* otherwise; so every move request names two places that differ, and a
\* history entry appears only when such a request is handled
C27_DragEndSkipsNoOps ==
    [][ /\ \A result \in DropResults(boardData) :
             onDragEnd(result) =>
                IF NoMove(result)
                THEN UNCHANGED <<nCalls, net, boardData, doc>>
                ELSE /\ nCalls' = nCalls + 1
                     /\ \E k \in net' \ net :
                           /\ k.op = "moveTask"
                           /\ k.req = [ kind |-> "move", id |-> result.draggableId,
                                        sourceColumnId |-> result.source.droppableId,
                                        destColumnId |-> result.destination.droppableId,
                                        sourceIndex |-> result.source.index,
                                        destIndex |-> result.destination.index ]
        /\ \A k \in net' \ net :
             (k.op = "moveTask" /\ k.stage = "request") =>
                \/ k.req.sourceColumnId # k.req.destColumnId
                \/ k.req.sourceIndex # k.req.destIndex
        /\ doc'.history # doc.history =>
              \E m \in net :
                 /\ m.op = "moveTask"
                 /\ m.stage = "request"
                 /\ m.req.sourceColumnId # m.req.destColumnId ]_vars

\* the welcome task has been dropped on Done and the request is on its way
C27_Witness ==
    /\ nCalls = 1
    /\ \E k \in net :
          /\ k.op = "moveTask"
          /\ k.stage = "request"
          /\ k.req.sourceColumnId = "todo"
          /\ k.req.destColumnId = "done"
    /\ boardData # Null
    /\ boardData.columns["done"].taskIds = <<SeedTaskId>>

\* C28: a move within one column to the index it starts from, that index
\* being in range and holding the moved task, leaves the taskIds of every
\* column as they were, in the optimistic board of the client and in the
\* document the server builds for the same request
C28_MoveToSamePlaceKeepsOrder ==
    [][ \A k \in net' \ net :
          (/\ Issued(k)
           /\ k.req.sourceColumnId = k.req.destColumnId
           /\ k.req.sourceIndex = k.req.destIndex
           /\ InRange(boardData, k.req)) =>
             /\ SameTaskIds(boardData', boardData)
             /\ doc = boardData
             /\ moveTaskData(doc, k.req.id, k.req.sourceColumnId, k.req.destColumnId,
                             k.req.sourceIndex, k.req.destIndex) = doc ]_vars

\* the second task of a list of at least two has been moved to index 1 of
\* the same list
C28_Witness ==
    /\ nCalls = 1
    /\ boardData = doc
    /\ Len(doc.columns["todo"].taskIds) >= 2
    /\ \E m \in net :
          m.req = MoveRequest(doc.columns["todo"].taskIds[2], "todo", "todo", 1, 1)

\* C29: the start of the server writes a document only when there is none:
\* the seed, with one task, the welcome task, whose id is the only entry of
\* the first column of columnOrder, the other columns empty and the history
\* empty; a document that exists is left as it is; requests are handled
\* only once a document is there
C29_SeededOnlyWhenAbsent ==
    [][ /\ (Boot \in net /\ Boot \notin net' /\ doc = Null) =>
              /\ DOMAIN doc'.tasks = {"task-1"}
              /\ doc'.tasks["task-1"].title = "Welcome to your Kanban Board!"
              /\ doc'.columns[doc'.columnOrder[1]].taskIds = <<"task-1">>
              /\ \A c \in DOMAIN doc'.columns \ {doc'.columnOrder[1]} :
                    doc'.columns[c].taskIds = <<>>
              /\ Range(doc'.columnOrder) = DOMAIN doc'.columns
              /\ doc'.history = <<>>
        /\ (Boot \in net /\ Boot \notin net' /\ doc # Null) => doc' = doc
        /\ Boot \notin net => doc # Null ]_vars

\* the server has started on a data file written by an earlier run and has
\* handled a request since
C29_Witness ==
    /\ net = {}
    /\ nOps = 1
    /\ res.status = 200
    /\ doc = customData

\* C30, without a response: nothing but the continuation of a fetchBoard
\* clears isLoading, and nothing but that continuation or a call of moveTask
\* replaces boardData; a request stays in flight until its response is there
C30_NothingTimesOut ==
    [][ /\ (isLoading /\ ~isLoading') =>
              \E m \in net : m.op = "fetchBoard" /\ Continued(m)
        /\ boardData' # boardData =>
              \/ \E m \in net : m.op = "fetchBoard" /\ Continued(m) /\ Ok(m.outcome)
              \/ \E k \in net' \ net : k.op = "moveTask" /\ k.stage = "request"
        /\ \A m \in net :
              m.stage = "request" => \E k \in net' : k.n = m.n /\ k.op = m.op ]_vars

\* C30: the store has no timeout, so isLoading stays set and an optimistic
\* board stays in place for as long as the response is missing; and when
\* every request gets a response, every operation started completes and
\* isLoading becomes false
C30_CompletesWhenAnswered ==
    /\ C30_NothingTimesOut
    /\ (net # {}) ~> (net = {})
    /\ isLoading ~> ~isLoading

\* the request of a moveTask failed, the re-fetch is unanswered: isLoading is
\* set and the cache still shows the optimistic board
C30_Witness ==
    /\ isLoading
    /\ \E m \in net :
          /\ RollbackFetch(m)
          /\ m.stage = "request"
          /\ m.caller.optimistic = boardData
    /\ boardData # Null
    /\ boardData # doc

\* C31: every moveTask the drag-end handler dispatches names the task that
\* stands at sourceIndex in the source column of the client's board, also
\* while a filter text is set
C31_DraggedTaskIsAtSourceIndex ==
    [][ \A k \in net' \ net :
          (k.op = "moveTask" /\ k.stage = "request" /\ boardData # Null) =>
             LET taskIds == boardData.columns[k.req.sourceColumnId].taskIds
             IN  /\ k.req.sourceIndex < Len(taskIds)
                 /\ taskIds[k.req.sourceIndex + 1] = k.req.id ]_vars

\* C32: for a task of the board, two of its columns and any two indices, the
\* columns the client holds after its optimistic update list the same ids as
\* the document the server has persisted for the request; the server answers
\* every such request with success
C32_ClientAndServerMoveAgree ==
    \A m \in net :
        (m.op = "moveTask" /\ m.stage = "response") =>
            /\ Ok(m.outcome)
            /\ m.optimistic = boardData
            /\ SameTaskIds(boardData, doc)

\* the last task of To Do was moved to its front by the indices -1 and 0,
\* and the server has persisted the move
C32_Witness ==
    \E m \in net :
        /\ m.op = "moveTask" /\ m.stage = "response"
        /\ m.req = MoveRequest("task-3", "todo", "todo", -1, 0)
        /\ doc.columns["todo"].taskIds = <<"task-3", "task-1", "task-2">>
        /\ boardData.columns["todo"].taskIds = <<"task-3", "task-1", "task-2">>

\* C33: every call of moveTask, whatever its arguments and whether or not a
\* board is loaded, puts exactly one move request on its way, carrying the
\* arguments of the call
C33_EveryMoveIsRequested ==
    [][ \A c \in MoveCalls(boardData) :
          moveTask(c.taskId, c.sourceColumnId, c.destColumnId,
                   c.sourceIndex, c.destIndex) =>
             \E k \in net' \ net :
                /\ net' = net \cup {k}
                /\ k.op = "moveTask"
                /\ k.stage = "request"
                /\ k.req = MoveRequest(c.taskId, c.sourceColumnId, c.destColumnId,
                                       c.sourceIndex, c.destIndex) ]_vars

\* C34: isLoading is true in exactly the states in which a fetchBoard is in
\* flight, also when several of them overlap
C34_LoadingWhileFetching ==
    isLoading <=> \E m \in net : m.op = "fetchBoard"

\* C35: the optimistic update of a moveTask changes nothing but the taskIds
\* of its source and destination columns: tasks, columnOrder, history, the
\* other columns, filter, isLoading and error stay; and the history of
\* boardData changes only when a fetchBoard has succeeded
C35_OptimisticMoveTouchesTwoLists ==
    [][ /\ \A k \in net' \ net :
             (k.op = "moveTask" /\ k.stage = "request" /\ boardData # Null) =>
                /\ boardData'.tasks = boardData.tasks
                /\ boardData'.columnOrder = boardData.columnOrder
                /\ boardData'.history = boardData.history
                /\ DOMAIN boardData' = DOMAIN boardData
                /\ DOMAIN boardData'.columns = DOMAIN boardData.columns
                /\ \A c \in DOMAIN boardData.columns :
                      IF c \in {k.req.sourceColumnId, k.req.destColumnId}
                      THEN boardData'.columns[c] =
                              [boardData.columns[c] EXCEPT
                                  !.taskIds = boardData'.columns[c].taskIds]
                      ELSE boardData'.columns[c] = boardData.columns[c]
                /\ filter' = filter
                /\ isLoading' = isLoading
                /\ error' = error
        /\ (/\ boardData # Null
            /\ boardData' # Null
            /\ boardData'.history # boardData.history) =>
              \E m \in net : m.op = "fetchBoard" /\ Continued(m) /\ Ok(m.outcome) ]_vars

\* the seed task was dragged to Done and the server has answered with
\* success: the document holds the Moved entry, the history of the client
\* is still empty
C35_Witness ==
    \E m \in net :
        /\ m.op = "moveTask"
        /\ m.stage = "response"
        /\ Ok(m.outcome)
        /\ boardData # Null
        /\ boardData.columns["done"].taskIds = <<SeedTaskId>>
        /\ boardData.columns["todo"].taskIds = <<>>
        /\ boardData.history = <<>>
        /\ doc.history = <<MovedEntry>>

\* C36: when the editing operations called so far have all succeeded (each
\* has added its entry to the history of the document) and every re-fetch
\* has been answered and handled, boardData is the document
C36_EditsEndConsistent ==
    (/\ net = {}
     /\ nCalls > 0
     /\ Len(doc.history) = nCalls) => boardData = doc

\* C37: a move of a task from its place i in S to an in-range place j of D,
\* followed by the move from j in D to i in S, restores the lists of every
\* column, for S = D and for S # D: on the client, whose board then lists
\* what the untouched document lists, and on the server, whose document
\* after both requests lists what the client's board lists
C37_MoveBackRestores ==
    /\ (nCalls = 2 /\ \A m \in net : m.stage = "request") =>
          /\ boardData # Null
          /\ SameTaskIds(boardData, doc)
    /\ (nCalls = 2 /\ \A m \in net : m.stage = "response") =>
          /\ \A m \in net : Ok(m.outcome)
          /\ SameTaskIds(doc, boardData)

\* task-2 was taken from the middle of To Do to the front of Done and back;
\* the server has handled both requests
C37_Witness ==
    /\ nCalls = 2
    /\ \E m \in net :
          /\ m.n = 2
          /\ m.stage = "response"
          /\ m.req = MoveRequest("task-2", "done", "todo", 0, 1)
    /\ \E m \in net : m.n = 1 /\ m.stage = "response"
    /\ doc.columns["todo"].taskIds = <<"task-1", "task-2", "task-3">>
    /\ boardData.columns["todo"].taskIds = <<"task-1", "task-2", "task-3">>
    /\ Len(doc.history) = 2

\* the error a route answers when writeData has returned false
WriteFailure(kind) ==
    CASE kind = "create" -> "Failed to save task"
      [] kind = "update" -> "Failed to update task"
      [] kind = "delete" -> "Failed to delete task"
      [] kind = "move" -> "Failed to move task"
      [] OTHER -> ""

====
